---- MODULE Spec2Model ----
(***************************************************************************)
(* Model of src/src/tools/sandbox.ts: the sandbox session manager          *)
(* (sandboxByChatId), the command-output store (commandOutputsByChatId),   *)
(* the retry-on-death loop of the tools, truncateOutput and                *)
(* searchCommandOutput.                                                    *)
(*                                                                         *)
(* A JavaScript string is a sequence of tokens: one-character strings,     *)
(* the newline "\n", and whole-word tokens for the fragments of an error   *)
(* message ("400", "not ok", "Status code", a chat id ...).                *)
(* String.includes(m) is membership of the token m.  undefined is None     *)
(* for a repository URL, 0 for a sandbox handle, {} for a Map.get result.  *)
(* SandboxInfo.createdAt and CommandOutput.timestamp are never read by the *)
(* code and are left out; SandboxInfo.sandboxId is the handle number.      *)
(***************************************************************************)
EXTENDS Integers, Sequences, FiniteSets, TLC

VARIABLES
    sandboxByChatId,         \* the Session Registry: a set of entries, one per key
    commandOutputsByChatId,  \* the Output Store: chat id -> sequence of records
    task,                    \* the tool calls in flight: task id -> locals and position
    nextHandle,              \* provider: handles 1..nextHandle-1 have been created
    stopAsked,               \* provider: handles on which stop() has been called
    completed,               \* history: runs that returned a result, per chat, since its teardown
    calls,                   \* history: calls made so far
    bench                    \* a pure function applied by itself: its input, then its output

vars == <<sandboxByChatId, commandOutputsByChatId, task, nextHandle, stopAsked,
          completed, calls, bench>>

-----------------------------------------------------------------------------
(* Bounds of the model *)

MaxHandles == 2      \* sandboxes the provider creates in one behaviour
MaxCalls == 3        \* calls made in one behaviour when issued one at a time
MaxConcCalls == 2    \* calls made in one behaviour when issued with no discipline
MaxToolCalls == 2    \* calls made in one behaviour when all the tools are called
MaxGrepCalls == 2    \* searchSandboxFiles calls made in one behaviour
MaxRecords == 2      \* command records kept in the Output Store, all chats together
MaxStrLen == 4       \* length of the outputs truncateOutput is applied to
MaxSearchLen == 3    \* length of the outputs searchCommandOutput is applied to
MaxBudget == 3       \* largest maxLines and maxResults applied
MaxLiveCalls == 2    \* tool calls made in one behaviour when what they await settles

(* Program constants *)

\* a variant of the code: a retry budget of two
maxRetriesTwo == 1 + 1

maxRetries == 1           \* sandbox.ts:275
DefaultMaxResults == 50   \* sandbox.ts:855

None == "undefined"
Tasks == {1, 2}          \* the calls that can be in flight together
ChatIds == {<<"main">>, <<"chat-", "400">>}
NoChat == <<>>
Repos == {"https://github.com/a/b.git", "https://github.com/c/d.git"}
NL == "\n"

Min(a, b) == IF a < b THEN a ELSE b
Max(a, b) == IF a > b THEN a ELSE b

-----------------------------------------------------------------------------
(* JavaScript library functions used by the code *)

\* String.prototype.includes over tokens
Includes(s, m) == \E i \in 1..Len(s) : s[i] = m

\* Array.prototype.slice(start, end), negative indices counted from the end
JsSlice(a, start, end) ==
    LET len  == Len(a)
        from == IF start < 0 THEN Max(len + start, 0) ELSE Min(start, len)
        to   == IF end < 0 THEN Max(len + end, 0) ELSE Min(end, len)
    IN  SubSeq(a, from + 1, to)

\* Array.prototype.slice(start)
JsSliceFrom(a, start) == JsSlice(a, start, Len(a))

\* String.prototype.split("\n"): the empty string yields one empty line
RECURSIVE Split(_)
Split(s) ==
    IF \A i \in 1..Len(s) : s[i] # NL
    THEN <<s>>
    ELSE LET k == CHOOSE i \in 1..Len(s) :
                      s[i] = NL /\ \A j \in 1..(i - 1) : s[j] # NL
         IN  <<SubSeq(s, 1, k - 1)>> \o Split(SubSeq(s, k + 1, Len(s)))

\* Array.prototype.join("\n")
RECURSIVE Join(_)
Join(lines) ==
    IF lines = <<>> THEN <<>>
    ELSE IF Len(lines) = 1 THEN lines[1]
    ELSE lines[1] \o <<NL>> \o Join(Tail(lines))

\* the text `... [${n} lines omitted] ...` as one token
OmissionMarker(n) == "... [" \o ToString(n) \o " lines omitted] ..."

-----------------------------------------------------------------------------
(* truncateOutput, sandbox.ts:188-211 *)

truncateOutput(output, maxLines) ==
    IF output = <<>>
    THEN [truncated |-> <<>>, totalLines |-> 0, isTruncated |-> FALSE]
    ELSE LET lines       == Split(output)
             totalLines  == Len(lines)
             isTruncated == totalLines > maxLines
             firstLines  == JsSlice(lines, 0, maxLines \div 2)
             lastLines   == JsSliceFrom(lines, -(maxLines \div 2))
         IN  IF isTruncated
             THEN [truncated   |-> Join(firstLines)
                                   \o <<NL, OmissionMarker(totalLines - maxLines), NL>>
                                   \o Join(lastLines),
                   totalLines  |-> totalLines,
                   isTruncated |-> TRUE]
             ELSE [truncated |-> output, totalLines |-> totalLines, isTruncated |-> FALSE]

-----------------------------------------------------------------------------
(* searchCommandOutput, sandbox.ts:859-963.  The pattern is a literal text  *)
(* (a regular expression without metacharacters); the RegExp object keeps   *)
(* lastIndex between calls of test() because it is built with the g flag.   *)

\* case folding of the i flag
Fold(c) == IF c = "A" THEN "a" ELSE IF c = "B" THEN "b" ELSE c

\* the pattern occurs in line at 0-based index i
MatchAt(line, pattern, ci, i) ==
    /\ i + Len(pattern) <= Len(line)
    /\ \A k \in 1..Len(pattern) :
           IF ci THEN Fold(line[i + k]) = Fold(pattern[k])
                 ELSE line[i + k] = pattern[k]

\* new RegExp(pattern, flags), sandbox.ts:897-898
NewRegExp(pattern, caseSensitive) ==
    [pattern |-> pattern, ignoreCase |-> ~caseSensitive, lastIndex |-> 0]

\* RegExp.prototype.test of a global regex: the search starts at lastIndex; a
\* match leaves lastIndex after it, a failure resets lastIndex to 0
RegexTest(re, line) ==
    LET hits == {i \in re.lastIndex..Len(line) :
                     MatchAt(line, re.pattern, re.ignoreCase, i)}
    IN  IF hits = {}
        THEN [found |-> FALSE, re |-> [re EXCEPT !.lastIndex = 0]]
        ELSE LET i == CHOOSE h \in hits : \A g \in hits : h <= g
             IN  [found |-> TRUE,
                  re |-> [re EXCEPT !.lastIndex = i + Len(re.pattern)]]

\* lines.forEach((line, index) => { if (regex.test(line)) matches.push(...) }),
\* sandbox.ts:911-921 and 926-936
RECURSIVE ForEachLine(_, _, _, _, _)
ForEachLine(output, stream, lines, index, re) ==
    IF index >= Len(lines)
    THEN [matches |-> <<>>, re |-> re]
    ELSE LET line == lines[index + 1]
             t    == RegexTest(re, line)
             rest == ForEachLine(output, stream, lines, index + 1, t.re)
             hit  == [commandId  |-> output.commandId,
                      command    |-> output.command,
                      stream     |-> stream,
                      line       |-> line,
                      lineNumber |-> index + 1]
         IN  [matches |-> (IF t.found THEN <<hit>> ELSE <<>>) \o rest.matches,
              re      |-> rest.re]

\* one iteration of `for (const output of commandsToSearch)`, sandbox.ts:908-941
ScanOutput(output, searchStdout, searchStderr, re) ==
    LET out == IF searchStdout /\ output.stdout # <<>>
               THEN ForEachLine(output, "stdout", Split(output.stdout), 0, re)
               ELSE [matches |-> <<>>, re |-> re]
        err == IF searchStderr /\ output.stderr # <<>>
               THEN ForEachLine(output, "stderr", Split(output.stderr), 0, out.re)
               ELSE [matches |-> <<>>, re |-> out.re]
    IN  [matches |-> out.matches \o err.matches,
         re      |-> [err.re EXCEPT !.lastIndex = 0]]

\* the loop over commandsToSearch
RECURSIVE ScanOutputs(_, _, _, _)
ScanOutputs(commandsToSearch, searchStdout, searchStderr, re) ==
    IF commandsToSearch = <<>> THEN <<>>
    ELSE LET one == ScanOutput(Head(commandsToSearch), searchStdout, searchStderr, re)
         IN  one.matches
             \o ScanOutputs(Tail(commandsToSearch), searchStdout, searchStderr, one.re)

\* Array.prototype.filter((o) => o.commandId === commandId)
FilterByCommandId(outputs, commandId) ==
    SelectSeq(outputs, LAMBDA o : o.commandId = commandId)

\* searchCommandOutputTool.execute on the records of one chat
searchCommandOutput(outputs, pattern, commandId, searchStdout, searchStderr, caseSensitive, maxResults) ==
    LET commandsToSearch == IF commandId # None
                            THEN FilterByCommandId(outputs, commandId)
                            ELSE outputs
        matches == ScanOutputs(commandsToSearch, searchStdout, searchStderr,
                               NewRegExp(pattern, caseSensitive))
    IN  IF Len(outputs) = 0
        THEN [success |-> TRUE, message |-> "No command outputs found",
              matches |-> <<>>, matchCount |-> 0]
        ELSE IF Len(commandsToSearch) = 0
        THEN [success |-> TRUE,
              message |-> IF commandId # None THEN "No command found with commandId"
                                              ELSE "No commands found",
              matches |-> <<>>, matchCount |-> 0]
        ELSE [success      |-> TRUE,
              pattern      |-> pattern,
              commandId    |-> IF commandId # None THEN commandId ELSE "all",
              matches      |-> JsSlice(matches, 0, maxResults),
              matchCount   |-> Len(matches),
              totalMatches |-> Len(matches),
              limited      |-> Len(matches) > maxResults,
              message      |-> IF Len(matches) > maxResults
                               THEN "Found more matches than shown" ELSE None]

-----------------------------------------------------------------------------
(* The two process-wide maps, sandbox.ts:24-25, and the provider's inputs *)

\* Map.prototype.get as the set of the entries under the key
MapGet(m, chatId) == {e \in m : e.chatId = chatId}

\* a variant of the code: Map.prototype.clear in the place of delete
MapClear(m, chatId) == {}

\* Map.prototype.delete
MapDelete(m, chatId) == {e \in m : e.chatId # chatId}

\* a variant of the code: a store that keeps the entry it had under the key
MapSetKeepsOld(m, chatId, info) ==
    m \cup {[chatId |-> chatId, sandbox |-> info.sandbox,
             repositoryUrl |-> info.repositoryUrl]}

\* Map.prototype.set: the entry under the key is replaced
MapSet(m, chatId, info) ==
    {e \in m : e.chatId # chatId}
        \cup {[chatId |-> chatId, sandbox |-> info.sandbox,
               repositoryUrl |-> info.repositoryUrl]}

Pick(S) == CHOOSE e \in S : TRUE

\* process.env: which of the three credentials are set when the code reads them
CredNames == {"VERCEL_TOKEN", "VERCEL_TEAM_ID", "VERCEL_PROJECT_ID"}

\* messages of the errors the provider's calls reject with
ProviderMessages == {<<"Status code", "400", "is", "not ok">>, <<"socket hang up">>}

\* what a finished sandbox.runCommand yields: stdout(), stderr(), exitCode
CommandResults ==
    { [exitCode |-> 0, stdout |-> <<"a", NL, "a", NL, "a">>, stderr |-> <<>>],
      [exitCode |-> 1, stdout |-> <<"a">>, stderr |-> <<"b", NL, "b", NL, "400">>] }

\* `${Date.now()}-${Math.random().toString(36).slice(2, 11)}`, sandbox.ts:323-325:
\* the clock and the random number are inputs, nothing makes two draws differ
CommandIds == {"1700000000000-k3x9q2abc", "1700000000001-z8y7x6wvu"}

\* the maxOutputLines the callers of the model pass (the default is 20)
OutputBudgets == {2}

\* the command a caller passes: command, args, sudo, workingDirectory
CommandInputs ==
    { [command |-> <<"cat">>, args |-> << <<"missing.txt">> >>, sudo |-> FALSE,
       workingDirectory |-> None] }

\* args.join(" ")
RECURSIVE JoinSpace(_)
JoinSpace(args) ==
    IF args = <<>> THEN <<>>
    ELSE IF Len(args) = 1 THEN args[1]
    ELSE args[1] \o <<" ">> \o JoinSpace(Tail(args))

\* fullCommand, sandbox.ts:291-315
FullCommand(in) ==
    IF in.workingDirectory # None
    THEN <<"cd ", in.workingDirectory, " && ">> \o in.command \o <<" ">>
             \o JoinSpace(in.args)
    ELSE (IF in.sudo THEN <<"sudo">> ELSE in.command) \o <<" ">>
             \o JoinSpace(IF in.sudo THEN <<in.command>> \o in.args ELSE in.args)

-----------------------------------------------------------------------------
(* Errors *)

\* isSandboxDeadError, sandbox.ts:48-56
isSandboxDeadError(error) ==
    Includes(error, "400") \/ Includes(error, "not ok") \/ Includes(error, "Status code")

\* sandbox.ts:105-107
MissingRepositoryMessage(chatId) ==
    <<"No sandbox exists for chat ">> \o chatId
        \o <<". Please provide a repositoryUrl to create a sandbox.">>

\* sandbox.ts:141-143
CredentialMessage ==
    <<"VERCEL_TEAM_ID and VERCEL_PROJECT_ID must be set when using VERCEL_TOKEN">>

\* sandbox.ts:155-157
CreationTimeoutMessage ==
    <<"Sandbox creation timed out after 10 minutes. The repository may be too large or there may be a network issue.">>

\* sandbox.ts:376-378
RunFailedMessage(message) == <<"Failed to run command: ">> \o message

\* sandbox.ts:447 and 477, 536 and 565, 747 and 806, 666
ListFailedMessage(message) == <<"Failed to list files: ">> \o message

ReadFailedMessage(message) == <<"Failed to read file: ">> \o message

SearchFailedMessage(message) == <<"Failed to search files: ">> \o message

FindFailedMessage(stderr) == <<"Failed to find files: ">> \o stderr

\* what the catch block of a tool throws, sandbox.ts:376-378, 475-477, 563-565,
\* 804-806
ToolFailedMessage(op, message) ==
    IF op = "list" THEN ListFailedMessage(message)
    ELSE IF op = "read" THEN ReadFailedMessage(message)
    ELSE IF op = "search" THEN SearchFailedMessage(message)
    ELSE RunFailedMessage(message)

\* what a tool throws when its retry loop ends, sandbox.ts:382, 481, 569, 810
AfterAttemptsMessage(op) ==
    <<"Failed to ">>
        \o (IF op = "list" THEN <<"list files">>
            ELSE IF op = "read" THEN <<"read file">>
            ELSE IF op = "search" THEN <<"search files">>
            ELSE <<"run command">>)
        \o <<" after ", ToString(maxRetries + 1), " attempts">>

-----------------------------------------------------------------------------
(* A tool call: its arguments, its locals and where it is suspended *)

NoRet == [kind |-> "none"]

\* what a command yields before any has run
NoResult == [exitCode |-> 0, stdout |-> <<>>, stderr |-> <<>>]

\* history kept for each call, in the order things happen: the provider calls it
\* makes ("create", "stop", "runCommand"), how they end ("set": create
\* resolved and the sandbox is registered; "create:dead", "create:error",
\* "create:timeout", "run:ok", "run:dead", "run:error": dead when the message is
\* death-classified; "stop:error": the stop() of the replaced sandbox rejected;
\* "create:late": the create call that lost the race to the timer makes a
\* sandbox all the same), the errors it throws itself ("throw:missing",
\* "throw:credentials") and its Map.delete calls ("replace" in
\* getOrCreateSandbox, "evict" in handleDeadSandbox, "teardown")
Failure(what, message) ==
    IF isSandboxDeadError(message) THEN what \o ":dead" ELSE what \o ":error"

IdleTask ==
    [pc |-> "idle", op |-> "none", chatId |-> NoChat, repositoryUrl |-> None,
     givenRepositoryUrl |-> None,
     maxOutputLines |-> 0, fullCommand |-> <<>>, retryCount |-> 0,
     actualRepositoryUrl |-> None, existing |-> {}, sandbox |-> 0,
     filePattern |-> None, includeLineNumbers |-> TRUE, files |-> <<>>,
     allMatches |-> <<>>,
     ret |-> NoRet, err |-> <<>>, result |-> NoResult, trace |-> <<>>]

\* history: givenRepositoryUrl is the repositoryUrl the caller passed, which the
\* catch block may reassign (sandbox.ts:369-371)

\* history: one more entry of the call's trace
Logged(tk, what) == [tk EXCEPT !.trace = Append(@, what)]

\* the locals of getOrCreateSandbox and of the try block go out of scope
Unwound(tk) ==
    [tk EXCEPT !.existing = {}, !.actualRepositoryUrl = None, !.sandbox = 0,
               !.files = <<>>, !.allMatches = <<>>]

InFlight(u) == task[u].pc # "idle"

\* a new call takes the first free slot (which slot it takes changes nothing)
FirstFree(t) == ~InFlight(t) /\ \A u \in Tasks : u < t => InFlight(u)

\* the records kept, all chats together
TotalRecords ==
    LET RECURSIVE Sum(_)
        Sum(S) == IF S = {} THEN 0
                  ELSE LET c == Pick(S)
                       IN  Len(commandOutputsByChatId[c]) + Sum(S \ {c})
    IN  Sum(ChatIds)

\* the runSandboxCommand calls in flight: each may push one more record
PendingRuns == Cardinality({u \in Tasks : InFlight(u) /\ task[u].op = "run"})

\* a call is in flight on the chat, or a global teardown is
Busy(chatId) ==
    \E u \in Tasks : InFlight(u) /\ (task[u].chatId = chatId \/ task[u].op = "cleanupAll")

-----------------------------------------------------------------------------
(* The synchronous stretches of a call, between two awaits.  Each yields   *)
(* the call's next locals (tk) and the handles asked to stop (stops).      *)

\* a variant of the code: the catch block retries after any error, death-
\* classified or not
CatchRetriesAny(tk0, error, registry, stops) ==
    LET tk == Unwound(tk0)
    IN  IF tk.op = "resolve"
        THEN [tk |-> [tk EXCEPT !.pc = "done", !.err = error], stops |-> stops]
        ELSE IF tk.retryCount < maxRetries
        THEN LET existing == MapGet(registry, tk.chatId)
             IN  IF existing # {}
                 THEN [tk |-> Logged([tk EXCEPT !.pc = "deadStop",
                                                !.existing = existing], "stop"),
                       stops |-> stops \cup {Pick(existing).sandbox}]
                 ELSE [tk |-> [tk EXCEPT !.pc = "attempt", !.retryCount = @ + 1],
                       stops |-> stops]
        ELSE [tk |-> [tk EXCEPT !.pc = "done", !.err = ToolFailedMessage(tk.op, error)],
              stops |-> stops]

\* a variant of the code: only runSandboxCommand has the retry, the catch
\* blocks of the file tools rethrow
CatchOfRunOnly(tk0, error, registry, stops) ==
    LET tk == Unwound(tk0)
    IN  IF tk.op = "resolve"
        THEN [tk |-> [tk EXCEPT !.pc = "done", !.err = error], stops |-> stops]
        ELSE IF tk.op = "run" /\ isSandboxDeadError(error) /\ tk.retryCount < maxRetries
        THEN LET existing == MapGet(registry, tk.chatId)
             IN  IF existing # {}
                 THEN [tk |-> Logged([tk EXCEPT !.pc = "deadStop",
                                                !.existing = existing], "stop"),
                       stops |-> stops \cup {Pick(existing).sandbox}]
                 ELSE [tk |-> [tk EXCEPT !.pc = "attempt", !.retryCount = @ + 1],
                       stops |-> stops]
        ELSE [tk |-> [tk EXCEPT !.pc = "done", !.err = ToolFailedMessage(tk.op, error)],
              stops |-> stops]

\* a variant of the code: handleDeadSandbox deletes the entry of the sandbox and
\* does not stop it
CatchDeletesUnstopped(tk0, error, registry, stops) ==
    LET tk == Unwound(tk0)
    IN  IF tk.op = "resolve"
        THEN [tk |-> [tk EXCEPT !.pc = "done", !.err = error], stops |-> stops]
        ELSE IF isSandboxDeadError(error) /\ tk.retryCount < maxRetries
        THEN LET existing == MapGet(registry, tk.chatId)
             IN  IF existing # {}
                 THEN [tk |-> Logged([tk EXCEPT !.pc = "deadStop",
                                                !.existing = existing], "stop"),
                       stops |-> stops]
                 ELSE [tk |-> [tk EXCEPT !.pc = "attempt", !.retryCount = @ + 1],
                       stops |-> stops]
        ELSE [tk |-> [tk EXCEPT !.pc = "done", !.err = ToolFailedMessage(tk.op, error)],
              stops |-> stops]

\* a variant of the code: the catch block retries while retryCount <= maxRetries,
\* the test of the loop
CatchRetriesAtLimit(tk0, error, registry, stops) ==
    LET tk == Unwound(tk0)
    IN  IF tk.op = "resolve"
        THEN [tk |-> [tk EXCEPT !.pc = "done", !.err = error], stops |-> stops]
        ELSE IF isSandboxDeadError(error) /\ tk.retryCount <= maxRetries
        THEN LET existing == MapGet(registry, tk.chatId)
             IN  IF existing # {}
                 THEN [tk |-> Logged([tk EXCEPT !.pc = "deadStop",
                                                !.existing = existing], "stop"),
                       stops |-> stops \cup {Pick(existing).sandbox}]
                 ELSE [tk |-> [tk EXCEPT !.pc = "attempt", !.retryCount = @ + 1],
                       stops |-> stops]
        ELSE [tk |-> [tk EXCEPT !.pc = "done", !.err = ToolFailedMessage(tk.op, error)],
              stops |-> stops]

\* the catch block of the tool, sandbox.ts:361-379, up to the await of
\* existing.sandbox.stop() in handleDeadSandbox, sandbox.ts:63-66.  A direct
\* call of getOrCreateSandbox has no catch block: the error reaches the caller.
Catch(tk0, error, registry, stops) ==
    LET tk == Unwound(tk0)
    IN  IF tk.op = "resolve"
        THEN [tk |-> [tk EXCEPT !.pc = "done", !.err = error], stops |-> stops]
        ELSE IF isSandboxDeadError(error) /\ tk.retryCount < maxRetries
        THEN LET existing == MapGet(registry, tk.chatId)
             IN  IF existing # {}
                 THEN [tk |-> Logged([tk EXCEPT !.pc = "deadStop",
                                                !.existing = existing], "stop"),
                       stops |-> stops \cup {Pick(existing).sandbox}]
                 ELSE \* handleDeadSandbox returns repositoryUrl, sandbox.ts:76
                      [tk |-> [tk EXCEPT !.pc = "attempt", !.retryCount = @ + 1],
                       stops |-> stops]
        ELSE [tk |-> [tk EXCEPT !.pc = "done", !.err = ToolFailedMessage(tk.op, error)],
              stops |-> stops]

\* searchSandboxFiles takes the find + grep branch, sandbox.ts:656
Restricted(filePattern) == filePattern # None /\ filePattern # "*"

\* getOrCreateSandbox has returned the handle h: a direct call is over, the
\* tool calls sandbox.runCommand, sandbox.ts:303-314, 438-441, 527-530, and in
\* searchSandboxFiles either find, sandbox.ts:657-660, or grep -r, sandbox.ts:737-740
Resolved(tk0, h, stops) ==
    LET tk == Unwound(tk0)
    IN  IF tk.op = "resolve"
        THEN [tk |-> [tk EXCEPT !.pc = "done",
                                !.ret = [kind |-> "sandbox", sandbox |-> h]],
              stops |-> stops]
        ELSE IF tk.op = "search" /\ Restricted(tk.filePattern)
        THEN [tk |-> Logged([tk EXCEPT !.pc = "finding", !.sandbox = h], "find"),
              stops |-> stops]
        ELSE IF tk.op = "search"
        THEN [tk |-> Logged([tk EXCEPT !.pc = "running", !.sandbox = h], "grep -r"),
              stops |-> stops]
        ELSE [tk |-> Logged([tk EXCEPT !.pc = "running", !.sandbox = h], "runCommand"),
              stops |-> stops]

\* the credentials of sandboxConfig, sandbox.ts:138-148: whether the check
\* throws, and which of teamId, projectId and token the configuration gets
Credentials(creds) ==
    IF "VERCEL_TOKEN" \in creds
    THEN IF "VERCEL_TEAM_ID" \notin creds \/ "VERCEL_PROJECT_ID" \notin creds
         THEN [throws |-> TRUE, attached |-> {}]
         ELSE [throws |-> FALSE,
               attached |-> {"VERCEL_TEAM_ID", "VERCEL_PROJECT_ID", "VERCEL_TOKEN"}]
    ELSE [throws |-> FALSE, attached |-> {}]

\* the credential check and the call of Sandbox.create, sandbox.ts:138-166
CreateSandbox(tk, creds, registry, stops) ==
    IF Credentials(creds).throws
    THEN Catch(Logged(tk, "throw:credentials"), CredentialMessage, registry, stops)
    ELSE [tk |-> Logged([tk EXCEPT !.pc = "creating"], "create"), stops |-> stops]

\* a variant of the code: any repository url given replaces the sandbox, be it
\* the url the sandbox was created for
getOrCreateSandboxAnyUrl(tk0, repositoryUrl, creds, registry, stops) ==
    LET existing == MapGet(registry, tk0.chatId)
        tk == [tk0 EXCEPT !.actualRepositoryUrl = repositoryUrl, !.existing = existing]
    IN  IF existing # {} /\ repositoryUrl = None
        THEN Resolved(tk, Pick(existing).sandbox, stops)
        ELSE IF existing # {}
        THEN [tk |-> Logged([tk EXCEPT !.pc = "stopOld"], "stop"),
              stops |-> stops \cup {Pick(existing).sandbox}]
        ELSE IF repositoryUrl = None
        THEN Catch(Logged(tk, "throw:missing"), MissingRepositoryMessage(tk.chatId),
                   registry, stops)
        ELSE CreateSandbox(tk, creds, registry, stops)

\* getOrCreateSandbox up to its first await, sandbox.ts:84-114
getOrCreateSandbox(tk0, repositoryUrl, creds, registry, stops) ==
    LET existing == MapGet(registry, tk0.chatId)
        tk == [tk0 EXCEPT !.actualRepositoryUrl = repositoryUrl, !.existing = existing]
    IN  IF existing # {} /\ repositoryUrl = None
        THEN Resolved(tk, Pick(existing).sandbox, stops)
        ELSE IF existing # {} /\ repositoryUrl # None
                /\ Pick(existing).repositoryUrl # repositoryUrl
        THEN [tk |-> Logged([tk EXCEPT !.pc = "stopOld"], "stop"),
              stops |-> stops \cup {Pick(existing).sandbox}]
        ELSE IF repositoryUrl = None /\ existing = {}
        THEN Catch(Logged(tk, "throw:missing"), MissingRepositoryMessage(tk.chatId),
                   registry, stops)
        ELSE IF existing = {}
        THEN CreateSandbox(tk, creds, registry, stops)
        ELSE Resolved(tk, Pick(existing).sandbox, stops)

\* the test of the tool's retry loop, sandbox.ts:277, and either one pass of
\* the loop up to its first await, sandbox.ts:278-288, or the throw that
\* follows the loop, sandbox.ts:382.  A direct call of getOrCreateSandbox has
\* no loop.
Attempt(tk, creds, registry, stops) ==
    LET existing == MapGet(registry, tk.chatId)
        actualRepositoryUrl ==
            IF tk.op = "resolve" \/ tk.repositoryUrl # None THEN tk.repositoryUrl
            ELSE IF existing # {} THEN Pick(existing).repositoryUrl
            ELSE None
    IN  IF tk.op = "resolve" \/ tk.retryCount <= maxRetries
        THEN getOrCreateSandbox(tk, actualRepositoryUrl, creds, registry, stops)
        ELSE [tk |-> [tk EXCEPT !.pc = "done", !.err = AfterAttemptsMessage(tk.op)],
              stops |-> stops]

\* a variant of the code: only a command that exits 0 is recorded and counts as
\* run
RunReturnZeroOnly(outputs, fullCommand, commandId, result, maxOutputLines) ==
    LET stdoutSummary == truncateOutput(result.stdout, maxOutputLines)
        stderrSummary == truncateOutput(result.stderr, maxOutputLines)
    IN  [outputs |-> IF result.exitCode = 0
                     THEN Append(outputs,
                                 [commandId |-> commandId,
                                  command   |-> fullCommand,
                                  stdout    |-> result.stdout,
                                  stderr    |-> result.stderr,
                                  exitCode  |-> result.exitCode])
                     ELSE outputs,
         ret |-> [kind            |-> "run",
                  success         |-> TRUE,
                  exitCode        |-> result.exitCode,
                  command         |-> fullCommand,
                  commandId       |-> commandId,
                  stdout          |-> stdoutSummary.truncated,
                  stdoutLines     |-> stdoutSummary.totalLines,
                  stdoutTruncated |-> stdoutSummary.isTruncated,
                  stderr          |-> stderrSummary.truncated,
                  stderrLines     |-> stderrSummary.totalLines,
                  stderrTruncated |-> stderrSummary.isTruncated,
                  message         |-> None]]

\* the successful end of runSandboxCommand, sandbox.ts:317-360: the record
\* pushed and the result returned
RunReturn(outputs, fullCommand, commandId, result, maxOutputLines) ==
    LET stdoutSummary == truncateOutput(result.stdout, maxOutputLines)
        stderrSummary == truncateOutput(result.stderr, maxOutputLines)
    IN  [outputs |-> Append(outputs,
                            [commandId |-> commandId,
                             command   |-> fullCommand,
                             stdout    |-> result.stdout,
                             stderr    |-> result.stderr,
                             exitCode  |-> result.exitCode]),
         ret |-> [kind            |-> "run",
                  success         |-> result.exitCode = 0,
                  exitCode        |-> result.exitCode,
                  command         |-> fullCommand,
                  commandId       |-> commandId,
                  stdout          |-> stdoutSummary.truncated,
                  stdoutLines     |-> stdoutSummary.totalLines,
                  stdoutTruncated |-> stdoutSummary.isTruncated,
                  stderr          |-> stderrSummary.truncated,
                  stderrLines     |-> stderrSummary.totalLines,
                  stderrTruncated |-> stderrSummary.isTruncated,
                  message         |-> IF stdoutSummary.isTruncated
                                         \/ stderrSummary.isTruncated
                                      THEN "Output truncated. Use searchCommandOutput"
                                      ELSE None]]

-----------------------------------------------------------------------------
(* The state after module load *)

NoBench == [op |-> "none"]

Loaded ==
    /\ sandboxByChatId = {}
    /\ commandOutputsByChatId = [c \in ChatIds |-> <<>>]
    /\ task = [t \in Tasks |-> IdleTask]
    /\ nextHandle = 1
    /\ stopAsked = {}
    /\ completed = [c \in ChatIds |-> 0]
    /\ calls = 0

Init == Loaded /\ bench = NoBench

-----------------------------------------------------------------------------
(* The steps of the calls.  serial = TRUE is the calling agent's discipline *)
(* (index.ts:687): one sandbox call at a time on a chat; limit bounds the   *)
(* calls of a behaviour.                                                    *)

\* runSandboxCommandTool.execute is called, sandbox.ts:265-288
CallRun(t, chatId, repositoryUrl, in, maxOutputLines, creds, serial, limit) ==
    /\ FirstFree(t)
    /\ calls < limit
    /\ TotalRecords + PendingRuns < MaxRecords
    /\ calls' = calls + 1
    /\ serial => ~Busy(chatId)
    /\ LET tk0 == [IdleTask EXCEPT !.op = "run", !.chatId = chatId,
                                   !.repositoryUrl = repositoryUrl,
                                   !.givenRepositoryUrl = repositoryUrl,
                                   !.maxOutputLines = maxOutputLines,
                                   !.fullCommand = FullCommand(in)]
           b   == Attempt(tk0, creds, sandboxByChatId, stopAsked)
       IN  /\ task' = [task EXCEPT ![t] = b.tk]
           /\ stopAsked' = b.stops
    /\ UNCHANGED <<sandboxByChatId, commandOutputsByChatId, nextHandle, completed, bench>>

\* getOrCreateSandbox is called by itself, sandbox.ts:80-114
CallResolve(t, chatId, repositoryUrl, creds, serial, limit) ==
    /\ FirstFree(t)
    /\ calls < limit
    /\ calls' = calls + 1
    /\ serial => ~Busy(chatId)
    /\ LET tk0 == [IdleTask EXCEPT !.op = "resolve", !.chatId = chatId,
                                   !.repositoryUrl = repositoryUrl,
                                   !.givenRepositoryUrl = repositoryUrl]
           b   == Attempt(tk0, creds, sandboxByChatId, stopAsked)
       IN  /\ task' = [task EXCEPT ![t] = b.tk]
           /\ stopAsked' = b.stops
    /\ UNCHANGED <<sandboxByChatId, commandOutputsByChatId, nextHandle, completed, bench>>

\* the retry loop goes round after handleDeadSandbox, sandbox.ts:372-373, 277-288
Retry(t, creds) ==
    /\ task[t].pc = "attempt"
    /\ LET b == Attempt(task[t], creds, sandboxByChatId, stopAsked)
       IN  /\ task' = [task EXCEPT ![t] = b.tk]
           /\ stopAsked' = b.stops
    /\ UNCHANGED <<sandboxByChatId, commandOutputsByChatId, nextHandle, completed, calls, bench>>

\* a variant of the code: a stop() of the replaced sandbox that rejects is not
\* caught
StopOldDoneThrows(t, creds, stopped) ==
    /\ task[t].pc = "stopOld"
    /\ LET registry == IF stopped THEN MapDelete(sandboxByChatId, task[t].chatId)
                       ELSE sandboxByChatId
           b == IF stopped
                THEN CreateSandbox(Logged(task[t], "replace"), creds, registry, stopAsked)
                ELSE Catch(Logged(task[t], "stop:error"), <<"socket hang up">>,
                           registry, stopAsked)
       IN  /\ sandboxByChatId' = registry
           /\ task' = [task EXCEPT ![t] = b.tk]
           /\ stopAsked' = b.stops
    /\ UNCHANGED <<commandOutputsByChatId, nextHandle, completed, calls, bench>>

\* a variant of the code: the entry of the replaced sandbox is left in the map
\* until the new sandbox is set over it
StopOldDoneKeepsOld(t, creds, stopped) ==
    /\ task[t].pc = "stopOld"
    /\ LET tk == IF stopped THEN task[t] ELSE Logged(task[t], "stop:error")
           b == CreateSandbox(Logged(tk, "replace"), creds, sandboxByChatId, stopAsked)
       IN  /\ task' = [task EXCEPT ![t] = b.tk]
           /\ stopAsked' = b.stops
    /\ UNCHANGED <<sandboxByChatId, commandOutputsByChatId, nextHandle, completed, calls, bench>>

\* the stop of the replaced sandbox has settled, resolved (stopped) or rejected,
\* sandbox.ts:95-114, 138-166
StopOldDone(t, creds, stopped) ==
    /\ task[t].pc = "stopOld"
    /\ LET registry == MapDelete(sandboxByChatId, task[t].chatId)
           tk == IF stopped THEN task[t] ELSE Logged(task[t], "stop:error")
           b == CreateSandbox(Logged(tk, "replace"), creds, registry, stopAsked)
       IN  /\ sandboxByChatId' = registry
           /\ task' = [task EXCEPT ![t] = b.tk]
           /\ stopAsked' = b.stops
    /\ UNCHANGED <<commandOutputsByChatId, nextHandle, completed, calls, bench>>

\* Sandbox.create wins the race and yields a new sandbox, sandbox.ts:163-176
CreateSucceeds(t) ==
    /\ task[t].pc = "creating"
    /\ nextHandle <= MaxHandles
    /\ LET sandbox == nextHandle
           tk == Logged(task[t], "set")
           b  == Resolved(tk, sandbox, stopAsked)
       IN  /\ sandboxByChatId' =
                  MapSet(sandboxByChatId, tk.chatId,
                         [sandbox |-> sandbox, repositoryUrl |-> tk.actualRepositoryUrl])
           /\ task' = [task EXCEPT ![t] = b.tk]
           /\ stopAsked' = b.stops
    /\ nextHandle' = nextHandle + 1
    /\ UNCHANGED <<commandOutputsByChatId, completed, calls, bench>>

\* Sandbox.create rejects, sandbox.ts:177-181
CreateFails(t, message) ==
    /\ task[t].pc = "creating"
    /\ LET b == Catch(Logged(task[t], Failure("create", message)), message,
                      sandboxByChatId, stopAsked)
       IN  /\ task' = [task EXCEPT ![t] = b.tk]
           /\ stopAsked' = b.stops
    /\ UNCHANGED <<sandboxByChatId, commandOutputsByChatId, nextHandle, completed, calls, bench>>

\* a variant of the code: the sandbox of a create call that ends after the timer
\* is registered all the same
CreateTimesOutRegistersLate(t, late) ==
    /\ task[t].pc = "creating"
    /\ late => nextHandle <= MaxHandles
    /\ LET tk == IF late THEN Logged(task[t], "create:late") ELSE task[t]
           b == Catch(Logged(tk, "create:timeout"), CreationTimeoutMessage,
                      sandboxByChatId, stopAsked)
       IN  /\ task' = [task EXCEPT ![t] = b.tk]
           /\ stopAsked' = b.stops
           /\ sandboxByChatId' =
                  IF late
                  THEN MapSet(sandboxByChatId, tk.chatId,
                              [sandbox |-> nextHandle,
                               repositoryUrl |-> tk.actualRepositoryUrl])
                  ELSE sandboxByChatId
    /\ nextHandle' = IF late THEN nextHandle + 1 ELSE nextHandle
    /\ UNCHANGED <<commandOutputsByChatId, completed, calls, bench>>

\* the 10 minute timer wins the race, sandbox.ts:151-166; the create call is
\* not aborted and may still make a sandbox (late) that nothing refers to
CreateTimesOut(t, late) ==
    /\ task[t].pc = "creating"
    /\ late => nextHandle <= MaxHandles
    /\ LET tk == IF late THEN Logged(task[t], "create:late") ELSE task[t]
           b == Catch(Logged(tk, "create:timeout"), CreationTimeoutMessage,
                      sandboxByChatId, stopAsked)
       IN  /\ task' = [task EXCEPT ![t] = b.tk]
           /\ stopAsked' = b.stops
    /\ nextHandle' = IF late THEN nextHandle + 1 ELSE nextHandle
    /\ UNCHANGED <<sandboxByChatId, commandOutputsByChatId, completed, calls, bench>>

\* sandbox.runCommand, stdout() and stderr() have resolved, sandbox.ts:317-360
RunCommandReturns(t, result, commandId) ==
    /\ task[t].pc = "running"
    /\ task[t].op = "run"
    /\ LET tk == task[t]
           r  == RunReturn(commandOutputsByChatId[tk.chatId], tk.fullCommand,
                           commandId, result, tk.maxOutputLines)
       IN  /\ commandOutputsByChatId' =
                  [commandOutputsByChatId EXCEPT ![tk.chatId] = r.outputs]
           /\ task' = [task EXCEPT ![t] =
                  [Unwound(Logged(tk, "run:ok")) EXCEPT
                      !.pc = "done", !.ret = r.ret, !.result = result]]
           /\ completed' = [completed EXCEPT ![tk.chatId] = @ + 1]
    /\ UNCHANGED <<sandboxByChatId, nextHandle, stopAsked, calls, bench>>

\* a variant of the code: runSandboxCommand keeps a record of the command that
\* was rejected before it handles the error
RunCommandFailsRecorded(t, message) ==
    /\ task[t].pc \in {"running", "finding", "grepping"}
    /\ LET b == Catch(Logged(task[t], Failure("run", message)), message,
                      sandboxByChatId, stopAsked)
       IN  /\ task' = [task EXCEPT ![t] = b.tk]
           /\ stopAsked' = b.stops
    /\ commandOutputsByChatId' =
           IF task[t].op = "run"
           THEN [commandOutputsByChatId EXCEPT ![task[t].chatId] =
                    Append(@, [commandId |-> "rejected", command |-> task[t].fullCommand,
                               stdout |-> <<>>, stderr |-> message, exitCode |-> 1])]
           ELSE commandOutputsByChatId
    /\ UNCHANGED <<sandboxByChatId, nextHandle, completed, calls, bench>>

\* sandbox.runCommand (or stdout(), stderr()) rejects, whichever tool called
\* it, sandbox.ts:361-379, 456-478, 544-566, 785-807
RunCommandFails(t, message) ==
    /\ task[t].pc \in {"running", "finding", "grepping"}
    /\ LET b == Catch(Logged(task[t], Failure("run", message)), message,
                      sandboxByChatId, stopAsked)
       IN  /\ task' = [task EXCEPT ![t] = b.tk]
           /\ stopAsked' = b.stops
    /\ UNCHANGED <<sandboxByChatId, commandOutputsByChatId, nextHandle, completed, calls, bench>>

\* a variant of the code: handleDeadSandbox stops the sandbox and leaves its
\* registry entry
DeadStopDoneKeepsEntry(t) ==
    /\ task[t].pc = "deadStop"
    /\ LET tk == task[t]
           existing == Pick(tk.existing)
           retryRepositoryUrl ==
               IF tk.repositoryUrl = None /\ existing.repositoryUrl # None
               THEN existing.repositoryUrl
               ELSE tk.repositoryUrl
       IN  task' = [task EXCEPT ![t] =
                  [tk EXCEPT
                      !.pc = "attempt",
                      !.existing = {},
                      !.repositoryUrl = IF retryRepositoryUrl # None
                                        THEN retryRepositoryUrl ELSE @,
                      !.retryCount = @ + 1]]
    /\ UNCHANGED <<sandboxByChatId, commandOutputsByChatId, nextHandle, stopAsked,
                   completed, calls, bench>>

\* a variant of the code: handleDeadSandbox deletes the command outputs of the
\* chat with its sandbox
DeadStopDoneClearsOutputs(t) ==
    /\ task[t].pc = "deadStop"
    /\ LET tk == task[t]
           existing == Pick(tk.existing)
           retryRepositoryUrl ==
               IF tk.repositoryUrl = None /\ existing.repositoryUrl # None
               THEN existing.repositoryUrl
               ELSE tk.repositoryUrl
       IN  /\ sandboxByChatId' = MapDelete(sandboxByChatId, tk.chatId)
           /\ commandOutputsByChatId' =
                  [commandOutputsByChatId EXCEPT ![tk.chatId] = <<>>]
           /\ task' = [task EXCEPT ![t] =
                  [Logged(tk, "evict") EXCEPT
                      !.pc = "attempt",
                      !.existing = {},
                      !.repositoryUrl = IF retryRepositoryUrl # None
                                        THEN retryRepositoryUrl ELSE @,
                      !.retryCount = @ + 1]]
    /\ UNCHANGED <<nextHandle, stopAsked, completed, calls, bench>>

\* a variant of the code: handleDeadSandbox returns the repositoryUrl it was
\* given and not the one of the sandbox it deleted
DeadStopDoneForgetsUrl(t) ==
    /\ task[t].pc = "deadStop"
    /\ LET tk == task[t]
       IN  /\ sandboxByChatId' = MapDelete(sandboxByChatId, tk.chatId)
           /\ task' = [task EXCEPT ![t] =
                  [Logged(tk, "evict") EXCEPT
                      !.pc = "attempt",
                      !.existing = {},
                      !.retryCount = @ + 1]]
    /\ UNCHANGED <<commandOutputsByChatId, nextHandle, stopAsked, completed, calls, bench>>

\* the stop of the dead sandbox has settled: the rest of handleDeadSandbox,
\* sandbox.ts:67-76, and of the catch block, sandbox.ts:369-373
DeadStopDone(t) ==
    /\ task[t].pc = "deadStop"
    /\ LET tk == task[t]
           existing == Pick(tk.existing)
           retryRepositoryUrl ==
               IF tk.repositoryUrl = None /\ existing.repositoryUrl # None
               THEN existing.repositoryUrl
               ELSE tk.repositoryUrl
       IN  /\ sandboxByChatId' = MapDelete(sandboxByChatId, tk.chatId)
           /\ task' = [task EXCEPT ![t] =
                  [Logged(tk, "evict") EXCEPT
                      !.pc = "attempt",
                      !.existing = {},
                      !.repositoryUrl = IF retryRepositoryUrl # None
                                        THEN retryRepositoryUrl ELSE @,
                      !.retryCount = @ + 1]]
    /\ UNCHANGED <<commandOutputsByChatId, nextHandle, stopAsked, completed, calls, bench>>

\* cleanupSandbox is called, sandbox.ts:976-988
CallCleanup(t, chatId, serial, limit) ==
    /\ FirstFree(t)
    /\ calls < limit
    /\ calls' = calls + 1
    /\ serial => ~Busy(chatId)
    /\ LET info == MapGet(sandboxByChatId, chatId)
           tk0  == [IdleTask EXCEPT !.op = "cleanup", !.chatId = chatId]
       IN  IF info # {}
           THEN /\ task' = [task EXCEPT ![t] =
                       Logged([tk0 EXCEPT !.pc = "cleanStop"], "stop")]
                /\ stopAsked' = stopAsked \cup {Pick(info).sandbox}
                /\ UNCHANGED <<commandOutputsByChatId, completed>>
           ELSE /\ task' = [task EXCEPT ![t] =
                       [tk0 EXCEPT !.pc = "done", !.ret = [kind |-> "void"]]]
                /\ commandOutputsByChatId' =
                       [commandOutputsByChatId EXCEPT ![chatId] = <<>>]
                /\ completed' = [completed EXCEPT ![chatId] = 0]
                /\ UNCHANGED stopAsked
    /\ UNCHANGED <<sandboxByChatId, nextHandle, bench>>

\* a variant of the code: a stop() that rejects is not caught, cleanupSandbox
\* rejects with it and deletes nothing
CleanStopDoneThrows(t, stopped) ==
    /\ task[t].pc = "cleanStop"
    /\ LET chatId == task[t].chatId
       IN  IF stopped
           THEN /\ sandboxByChatId' = MapDelete(sandboxByChatId, chatId)
                /\ commandOutputsByChatId' =
                       [commandOutputsByChatId EXCEPT ![chatId] = <<>>]
                /\ completed' = [completed EXCEPT ![chatId] = 0]
                /\ task' = [task EXCEPT ![t] =
                       [Logged(@, "teardown") EXCEPT !.pc = "done",
                                                     !.ret = [kind |-> "void"]]]
           ELSE /\ task' = [task EXCEPT ![t] =
                       [Logged(@, "stop:error") EXCEPT !.pc = "done",
                                                       !.err = <<"socket hang up">>]]
                /\ UNCHANGED <<sandboxByChatId, commandOutputsByChatId, completed>>
    /\ UNCHANGED <<nextHandle, stopAsked, calls, bench>>

\* the stop asked by cleanupSandbox has settled, resolved (stopped) or
\* rejected, sandbox.ts:979-987
CleanStopDone(t, stopped) ==
    /\ task[t].pc = "cleanStop"
    /\ LET chatId == task[t].chatId
           tk == IF stopped THEN task[t] ELSE Logged(task[t], "stop:error")
       IN  /\ sandboxByChatId' = MapDelete(sandboxByChatId, chatId)
           /\ commandOutputsByChatId' =
                  [commandOutputsByChatId EXCEPT ![chatId] = <<>>]
           /\ completed' = [completed EXCEPT ![chatId] = 0]
           /\ task' = [task EXCEPT ![t] =
                  [Logged(tk, "teardown") EXCEPT !.pc = "done",
                                                 !.ret = [kind |-> "void"]]]
    /\ UNCHANGED <<nextHandle, stopAsked, calls, bench>>

\* cleanupAllSandboxes is called, sandbox.ts:991-997
CallCleanupAll(t, serial, limit) ==
    /\ FirstFree(t)
    /\ calls < limit
    /\ calls' = calls + 1
    /\ serial => \A u \in Tasks : ~InFlight(u)
    /\ task' = [task EXCEPT ![t] =
           [IdleTask EXCEPT !.op = "cleanupAll", !.pc = "cleanAllStop",
                            !.existing = sandboxByChatId]]
    /\ stopAsked' = stopAsked \cup {e.sandbox : e \in sandboxByChatId}
    /\ UNCHANGED <<sandboxByChatId, commandOutputsByChatId, nextHandle, completed, bench>>

\* Promise.all of the stops has settled, all resolved (stopped) or some
\* rejected and caught, sandbox.ts:992-999
CleanAllDone(t, stopped) ==
    /\ task[t].pc = "cleanAllStop"
    /\ ~stopped => task[t].existing # {}
    /\ sandboxByChatId' = {}
    /\ commandOutputsByChatId' = [c \in ChatIds |-> <<>>]
    /\ completed' = [c \in ChatIds |-> 0]
    /\ LET tk == IF stopped THEN task[t] ELSE Logged(task[t], "stop:error")
       IN  task' = [task EXCEPT ![t] =
               [tk EXCEPT !.pc = "done", !.existing = {}, !.ret = [kind |-> "void"]]]
    /\ UNCHANGED <<nextHandle, stopAsked, calls, bench>>

-----------------------------------------------------------------------------
(* listSandboxFiles, readSandboxFile, searchSandboxFiles: the same retry    *)
(* loop around other commands.  A resolved command adds "exit:N" to the     *)
(* trace of the call, an error the tool throws on an exit code adds         *)
(* "throw:dead" or "throw:error"; the commands of searchSandboxFiles are    *)
(* traced by name: "find", "grep -r", "grep".                               *)

\* String.prototype.trim over tokens
RECURSIVE TrimStart(_)
TrimStart(s) == IF s # <<>> /\ Head(s) = " " THEN TrimStart(Tail(s)) ELSE s

RECURSIVE TrimEnd(_)
TrimEnd(s) ==
    IF s # <<>> /\ s[Len(s)] = " " THEN TrimEnd(SubSeq(s, 1, Len(s) - 1)) ELSE s

Trim(s) == TrimEnd(TrimStart(s))

\* stdout.split("\n").filter((l) => l.trim()), sandbox.ts:705-707, 757
NonBlankLines(stdout) == SelectSeq(Split(stdout), LAMBDA l : Trim(l) # <<>>)

\* findStdout.split("\n").filter((f) => f.trim()).map((f) => f.trim()),
\* sandbox.ts:669-672
FoundFiles(findStdout) ==
    LET kept == NonBlankLines(findStdout)
    IN  [i \in 1..Len(kept) |-> Trim(kept[i])]

IsDigit(c) == \E n \in 0..9 : ToString(n) = c

\* the number of digits a line begins with after its first `from` tokens
RECURSIVE DigitsAt(_, _)
DigitsAt(line, from) ==
    IF from < Len(line) /\ IsDigit(line[from + 1]) THEN 1 + DigitsAt(line, from + 1)
    ELSE 0

\* parseInt of a text of digits
RECURSIVE ParseInt(_)
ParseInt(digits) ==
    IF digits = <<>> THEN 0
    ELSE 10 * ParseInt(SubSeq(digits, 1, Len(digits) - 1))
         + (CHOOSE n \in 0..9 : ToString(n) = digits[Len(digits)])

\* one line of grep -n on one file, /^(\d+):(.*)$/, sandbox.ts:708-723
FileMatch(file, line, includeLineNumbers) ==
    LET k == DigitsAt(line, 0)
    IN  IF includeLineNumbers /\ k >= 1 /\ Len(line) > k + 1 /\ line[k + 1] = ":"
        THEN [file |-> file, line |-> SubSeq(line, k + 2, Len(line)),
              lineNumber |-> ParseInt(SubSeq(line, 1, k))]
        ELSE [file |-> file, line |-> line]

\* one line of grep -rn, /^([^:]+):(\d+):(.*)$/, sandbox.ts:758-774
TreeMatch(path, line, includeLineNumbers) ==
    LET colons == {i \in 1..Len(line) : line[i] = ":"}
        c == IF colons = {} THEN 0 ELSE CHOOSE i \in colons : \A j \in colons : i <= j
        k == DigitsAt(line, c)
    IN  IF includeLineNumbers /\ c >= 2 /\ k >= 1 /\ Len(line) > c + k + 1
           /\ line[c + k + 1] = ":"
        THEN [file |-> SubSeq(line, 1, c - 1),
              line |-> SubSeq(line, c + k + 2, Len(line)),
              lineNumber |-> ParseInt(SubSeq(line, c + 1, c + k))]
        ELSE [file |-> path, line |-> line]

\* the matches of one file, sandbox.ts:704-724
FileMatches(file, result, includeLineNumbers) ==
    IF result.exitCode = 0 /\ result.stdout # <<>>
    THEN LET lines == NonBlankLines(result.stdout)
         IN  [i \in 1..Len(lines) |-> FileMatch(file, lines[i], includeLineNumbers)]
    ELSE <<>>

\* the matches of grep -r, sandbox.ts:750-775
TreeMatches(path, stdout, includeLineNumbers) ==
    IF stdout # <<>>
    THEN LET lines == NonBlankLines(stdout)
         IN  [i \in 1..Len(lines) |-> TreeMatch(path, lines[i], includeLineNumbers)]
    ELSE <<>>

\* what the commands of the file tools can yield
SearchPath == <<".">>

ListResults ==
    {[exitCode |-> 0, stdout |-> <<"f", NL, "g">>, stderr |-> <<>>],
     [exitCode |-> 2, stdout |-> <<>>, stderr |-> <<"ls: x: No such file or directory">>]}

ReadResults ==
    {[exitCode |-> 0, stdout |-> <<"a", NL>>, stderr |-> <<>>],
     [exitCode |-> 1, stdout |-> <<>>, stderr |-> <<"cat: x: No such file or directory">>],
     [exitCode |-> 1, stdout |-> <<>>,
      stderr |-> <<"cat: ", "400", ".txt: No such file or directory">>]}

FindResults ==
    {[exitCode |-> 0, stdout |-> <<>>, stderr |-> <<>>],
     [exitCode |-> 0, stdout |-> <<" ", NL>>, stderr |-> <<>>],
     [exitCode |-> 0, stdout |-> <<"f", NL, " ", "g", NL>>, stderr |-> <<>>],
     [exitCode |-> 1, stdout |-> <<>>, stderr |-> <<"find: x: No such file or directory">>]}

FileGrepResults ==
    {[exitCode |-> 0, stdout |-> <<"1", "2", ":", "a", NL, "b", NL>>, stderr |-> <<>>],
     [exitCode |-> 1, stdout |-> <<>>, stderr |-> <<>>],
     [exitCode |-> 2, stdout |-> <<>>, stderr |-> <<"grep: f: Permission denied">>]}

GrepResults ==
    {[exitCode |-> 0, stdout |-> <<"f", ":", "7", ":", "a", NL, "b", NL>>, stderr |-> <<>>],
     [exitCode |-> 1, stdout |-> <<>>, stderr |-> <<>>],
     [exitCode |-> 2, stdout |-> <<>>, stderr |-> <<"grep: x: No such file or directory">>],
     [exitCode |-> 2, stdout |-> <<>>,
      stderr |-> <<"grep: ", "400", ": No such file or directory">>]}

FilePatterns == {None, "*", "*.ts"}

\* all of it, and the little of it that tells the tools apart
AllFiles ==
    [list |-> ListResults, read |-> ReadResults, find |-> FindResults,
     fileGrep |-> FileGrepResults, grep |-> GrepResults,
     filePatterns |-> FilePatterns, includeLineNumbers |-> BOOLEAN]

FewFiles ==
    [list |-> ListResults, read |-> ReadResults,
     find |-> {r \in FindResults : r.stdout \in {<<>>, <<"f", NL, " ", "g", NL>>}},
     fileGrep |-> {r \in FileGrepResults : r.exitCode # 1},
     grep |-> {r \in GrepResults : r.exitCode # 1},
     filePatterns |-> {None, "*.ts"}, includeLineNumbers |-> {TRUE}]

\* history: the command has resolved with the result
Exited(tk, result) ==
    [Logged(tk, "exit:" \o ToString(result.exitCode)) EXCEPT !.result = result]

\* a tool starts: the first pass of its retry loop, sandbox.ts:416-431, 510-525,
\* 618-641
StartTool(t, tk0, creds, serial, limit) ==
    /\ FirstFree(t)
    /\ calls < limit
    /\ calls' = calls + 1
    /\ serial => ~Busy(tk0.chatId)
    /\ LET b == Attempt(tk0, creds, sandboxByChatId, stopAsked)
       IN  /\ task' = [task EXCEPT ![t] = b.tk]
           /\ stopAsked' = b.stops
    /\ UNCHANGED <<sandboxByChatId, commandOutputsByChatId, nextHandle, completed, bench>>

\* the tool throws message inside its try block: its catch block runs
Throws(t, tk, message) ==
    /\ LET b == Catch(Logged(tk, Failure("throw", message)), message,
                      sandboxByChatId, stopAsked)
       IN  /\ task' = [task EXCEPT ![t] = b.tk]
           /\ stopAsked' = b.stops
    /\ UNCHANGED <<sandboxByChatId, commandOutputsByChatId, nextHandle, completed,
                   calls, bench>>

\* the tool returns ret
Returns(t, tk, ret) ==
    /\ task' = [task EXCEPT ![t] = [Unwound(tk) EXCEPT !.pc = "done", !.ret = ret]]
    /\ UNCHANGED <<sandboxByChatId, commandOutputsByChatId, nextHandle, stopAsked,
                   completed, calls, bench>>

\* listSandboxFilesTool.execute is called, sandbox.ts:416-431
CallList(t, chatId, repositoryUrl, creds, serial, limit) ==
    StartTool(t, [IdleTask EXCEPT !.op = "list", !.chatId = chatId,
                                  !.repositoryUrl = repositoryUrl,
                                  !.givenRepositoryUrl = repositoryUrl],
              creds, serial, limit)

\* ls or find has resolved, sandbox.ts:443-455
ListReturns(t, result) ==
    /\ task[t].pc = "running"
    /\ task[t].op = "list"
    /\ LET tk == Exited(task[t], result)
       IN  IF result.exitCode # 0
           THEN Throws(t, tk, ListFailedMessage(result.stderr))
           ELSE Returns(t, tk, [kind |-> "list", success |-> TRUE,
                                output |-> result.stdout])

\* readSandboxFileTool.execute is called, sandbox.ts:510-525
CallRead(t, chatId, repositoryUrl, creds, serial, limit) ==
    StartTool(t, [IdleTask EXCEPT !.op = "read", !.chatId = chatId,
                                  !.repositoryUrl = repositoryUrl,
                                  !.givenRepositoryUrl = repositoryUrl],
              creds, serial, limit)

\* cat has resolved, sandbox.ts:532-543
ReadReturns(t, result) ==
    /\ task[t].pc = "running"
    /\ task[t].op = "read"
    /\ LET tk == Exited(task[t], result)
       IN  IF result.exitCode # 0
           THEN Throws(t, tk, ReadFailedMessage(result.stderr))
           ELSE Returns(t, tk, [kind |-> "read", success |-> TRUE,
                                content |-> result.stdout])

\* searchSandboxFilesTool.execute is called, sandbox.ts:618-641
CallSearch(t, chatId, repositoryUrl, filePattern, includeLineNumbers, creds, serial, limit) ==
    StartTool(t, [IdleTask EXCEPT !.op = "search", !.chatId = chatId,
                                  !.repositoryUrl = repositoryUrl,
                                  !.givenRepositoryUrl = repositoryUrl,
                                  !.filePattern = filePattern,
                                  !.includeLineNumbers = includeLineNumbers],
              creds, serial, limit)

\* grep -r has resolved, sandbox.ts:742-783
GrepReturns(t, result) ==
    /\ task[t].pc = "running"
    /\ task[t].op = "search"
    /\ LET tk == Exited(task[t], result)
           matches == TreeMatches(SearchPath, result.stdout, tk.includeLineNumbers)
       IN  IF result.exitCode # 0 /\ result.exitCode # 1
           THEN Throws(t, tk, SearchFailedMessage(result.stderr))
           ELSE Returns(t, tk, [kind |-> "search", success |-> TRUE,
                                matches |-> matches, matchCount |-> Len(matches)])

\* a variant of the code: the lines of find's output are not filtered, a blank
\* line counts as a file
FindReturnsKeepsBlanks(t, result) ==
    /\ task[t].pc = "finding"
    /\ LET tk == Exited(task[t], result)
           files == Split(result.stdout)
       IN  IF result.exitCode # 0
           THEN Throws(t, tk, FindFailedMessage(result.stderr))
           ELSE IF Len(files) = 0
           THEN Returns(t, tk, [kind |-> "search", success |-> TRUE, matches |-> <<>>,
                                message |-> "No files matching pattern found"])
           ELSE /\ task' = [task EXCEPT ![t] =
                       Logged([tk EXCEPT !.pc = "grepping", !.files = files,
                                         !.allMatches = <<>>], "grep")]
                /\ UNCHANGED <<sandboxByChatId, commandOutputsByChatId, nextHandle,
                               stopAsked, completed, calls, bench>>

\* find has resolved, sandbox.ts:662-691
FindReturns(t, result) ==
    /\ task[t].pc = "finding"
    /\ LET tk == Exited(task[t], result)
           files == FoundFiles(result.stdout)
       IN  IF result.exitCode # 0
           THEN Throws(t, tk, FindFailedMessage(result.stderr))
           ELSE IF Len(files) = 0
           THEN Returns(t, tk, [kind |-> "search", success |-> TRUE, matches |-> <<>>,
                                message |-> "No files matching pattern found"])
           ELSE /\ task' = [task EXCEPT ![t] =
                       Logged([tk EXCEPT !.pc = "grepping", !.files = files,
                                         !.allMatches = <<>>], "grep")]
                /\ UNCHANGED <<sandboxByChatId, commandOutputsByChatId, nextHandle,
                               stopAsked, completed, calls, bench>>

\* the grep of one file has resolved, sandbox.ts:691-734
FileGrepReturns(t, result) ==
    /\ task[t].pc = "grepping"
    /\ LET tk == Exited(task[t], result)
           file == Head(tk.files)
           allMatches == tk.allMatches \o FileMatches(file, result, tk.includeLineNumbers)
       IN  IF Len(tk.files) > 1
           THEN /\ task' = [task EXCEPT ![t] =
                       Logged([tk EXCEPT !.files = Tail(tk.files),
                                         !.allMatches = allMatches], "grep")]
                /\ UNCHANGED <<sandboxByChatId, commandOutputsByChatId, nextHandle,
                               stopAsked, completed, calls, bench>>
           ELSE Returns(t, tk, [kind |-> "search", success |-> TRUE,
                                matches |-> allMatches,
                                matchCount |-> Len(allMatches)])

\* searchCommandOutputTool.execute is called: it has no await and returns at
\* once, sandbox.ts:859-963
CallSearchOutput(t, chatId, pattern, commandId, serial, limit) ==
    /\ FirstFree(t)
    /\ calls < limit
    /\ calls' = calls + 1
    /\ serial => ~Busy(chatId)
    /\ task' = [task EXCEPT ![t] =
           [IdleTask EXCEPT
               !.op = "searchOutput", !.chatId = chatId, !.pc = "done",
               !.ret = [kind |-> "searchOutput",
                        found |-> searchCommandOutput(commandOutputsByChatId[chatId],
                                                      pattern, commandId, TRUE, TRUE,
                                                      FALSE, DefaultMaxResults)]]]
    /\ UNCHANGED <<sandboxByChatId, commandOutputsByChatId, nextHandle, stopAsked,
                   completed, bench>>

\* the promise of a call settles: its caller gets the result or the error
Return(t) ==
    /\ task[t].pc = "done"
    /\ task' = [task EXCEPT ![t] = IdleTask]
    /\ UNCHANGED <<sandboxByChatId, commandOutputsByChatId, nextHandle, stopAsked,
                   completed, calls, bench>>

\* a settled promise is delivered before anything else runs
Delivered == \A u \in Tasks : task[u].pc # "done"

\* one step of the call t; W names the callers' discipline (serial: one call at a
\* time on a chat, index.ts:687; maxCalls) and the inputs the callers and the
\* provider draw from: the chat ids, the repository urls, the credentials set in
\* the environment, the command results and the command ids
AdvanceInTime(t, W) ==
    \/ \E c \in W.chats, url \in W.urls, in \in CommandInputs,
          m \in OutputBudgets, creds \in W.envs :
           CallRun(t, c, url, in, m, creds, W.serial, W.maxCalls)
    \/ \E c \in W.chats, url \in W.urls, creds \in W.envs :
           CallResolve(t, c, url, creds, W.serial, W.maxCalls)
    \/ \E creds \in W.envs : Retry(t, creds)
    \/ \E creds \in W.envs, stopped \in BOOLEAN : StopOldDone(t, creds, stopped)
    \/ CreateSucceeds(t)
    \/ \E message \in ProviderMessages : CreateFails(t, message)
    \/ \E result \in W.results, id \in W.ids : RunCommandReturns(t, result, id)
    \/ \E message \in ProviderMessages : RunCommandFails(t, message)
    \/ DeadStopDone(t)
    \/ \E c \in W.chats : CallCleanup(t, c, W.serial, W.maxCalls)
    \/ \E stopped \in BOOLEAN : CleanStopDone(t, stopped)
    \/ CallCleanupAll(t, W.serial, W.maxCalls)
    \/ \E stopped \in BOOLEAN : CleanAllDone(t, stopped)

\* the same, or the timer of a creation fires
Advance(t, W) ==
    \/ AdvanceInTime(t, W)
    \/ \E late \in BOOLEAN : CreateTimesOut(t, late)

Step(W) ==
    \E t \in Tasks :
        \/ Return(t)
        \/ Delivered /\ Advance(t, W)

\* a step when every Sandbox.create settles within its 10 minutes
StepInTime(W) ==
    \E t \in Tasks :
        \/ Return(t)
        \/ Delivered /\ AdvanceInTime(t, W)

\* the sessions of all chats; what the commands print is of no interest
Sessions ==
    [serial |-> TRUE, maxCalls |-> MaxCalls, chats |-> ChatIds,
     urls |-> Repos \cup {None}, envs |-> SUBSET CredNames,
     results |-> {r \in CommandResults : r.exitCode = 0},
     ids |-> {CHOOSE id \in CommandIds : TRUE}]

\* the same, the calls issued with no discipline
Races == [Sessions EXCEPT !.serial = FALSE, !.maxCalls = MaxConcCalls]

\* the commands of one chat, with all they can print and all the ids they can get
Commands ==
    [serial |-> TRUE, maxCalls |-> MaxCalls, chats |-> {<<"main">>},
     urls |-> Repos \cup {None}, envs |-> SUBSET CredNames,
     results |-> CommandResults, ids |-> CommandIds]

\* one step of searchSandboxFiles
AdvanceSearch(t, W) ==
    \/ \E c \in W.chats, url \in W.urls, creds \in W.envs,
          filePattern \in W.files.filePatterns,
          includeLineNumbers \in W.files.includeLineNumbers :
           CallSearch(t, c, url, filePattern, includeLineNumbers, creds,
                      W.serial, W.maxCalls)
    \/ \E result \in W.files.grep : GrepReturns(t, result)
    \/ \E result \in W.files.find : FindReturns(t, result)
    \/ \E result \in W.files.fileGrep : FileGrepReturns(t, result)

\* one step of a file tool or of searchCommandOutput
AdvanceTool(t, W) ==
    \/ \E c \in W.chats, url \in W.urls, creds \in W.envs :
           CallList(t, c, url, creds, W.serial, W.maxCalls)
    \/ \E result \in W.files.list : ListReturns(t, result)
    \/ \E c \in W.chats, url \in W.urls, creds \in W.envs :
           CallRead(t, c, url, creds, W.serial, W.maxCalls)
    \/ \E result \in W.files.read : ReadReturns(t, result)
    \/ AdvanceSearch(t, W)
    \/ \E c \in W.chats, id \in W.ids \cup {None} :
           CallSearchOutput(t, c, <<"a">>, id, W.serial, W.maxCalls)

\* one step of searchSandboxFiles and of what it rests on: the creation of the
\* sandbox, the failures of the provider and the retry
AdvanceGrep(t, W) ==
    \/ AdvanceSearch(t, W)
    \/ \E creds \in W.envs : Retry(t, creds)
    \/ CreateSucceeds(t)
    \/ \E message \in ProviderMessages : RunCommandFails(t, message)
    \/ DeadStopDone(t)

\* all the tools on all chats, a few calls
Tools ==
    [serial |-> TRUE, maxCalls |-> MaxToolCalls, chats |-> ChatIds,
     urls |-> {CHOOSE url \in Repos : TRUE, None},
     envs |-> {{}, {"VERCEL_TOKEN"}},
     results |-> {r \in CommandResults : r.exitCode = 0},
     ids |-> {CHOOSE id \in CommandIds : TRUE}, files |-> FewFiles]

\* the searches of the files of one chat, with all that find and grep can yield
Greps ==
    [serial |-> TRUE, maxCalls |-> MaxGrepCalls, chats |-> {<<"main">>},
     urls |-> {CHOOSE url \in Repos : TRUE, None}, envs |-> {{}},
     results |-> {}, ids |-> {}, files |-> AllFiles]

GrepStep(W) ==
    \E t \in Tasks :
        \/ Return(t)
        \/ Delivered /\ AdvanceGrep(t, W)

GrepNext == GrepStep(Greps)

ToolStep(W) ==
    \E t \in Tasks :
        \/ Return(t)
        \/ Delivered /\ (Advance(t, W) \/ AdvanceTool(t, W))

ToolNext == ToolStep(Tools)

Next == Step(Sessions)

ConcNext == Step(Races)

RunNext == Step(Commands)

TimelyNext == StepInTime(Sessions)

\* the calls on one chat are issued one at a time
Spec == Init /\ [][Next]_vars

\* the calls are issued with no discipline
ConcSpec == Init /\ [][ConcNext]_vars

\* the commands of one chat, issued one at a time
RunSpec == Init /\ [][RunNext]_vars

\* the calls on one chat are issued one at a time and no creation times out
TimelySpec == Init /\ [][TimelyNext]_vars

\* all the tools, their calls issued one at a time
ToolSpec == Init /\ [][ToolNext]_vars

\* the searches of the files of one chat, issued one at a time
GrepSpec == Init /\ [][GrepNext]_vars

\* a tool that runs in a sandbox is called
IssueTool(t, W) ==
    \/ \E c \in W.chats, url \in W.urls, in \in CommandInputs,
          m \in OutputBudgets, creds \in W.envs :
           CallRun(t, c, url, in, m, creds, W.serial, W.maxCalls)
    \/ \E c \in W.chats, url \in W.urls, creds \in W.envs :
           CallList(t, c, url, creds, W.serial, W.maxCalls)
    \/ \E c \in W.chats, url \in W.urls, creds \in W.envs :
           CallRead(t, c, url, creds, W.serial, W.maxCalls)
    \/ \E c \in W.chats, url \in W.urls, creds \in W.envs,
          filePattern \in W.files.filePatterns,
          includeLineNumbers \in W.files.includeLineNumbers :
           CallSearch(t, c, url, filePattern, includeLineNumbers, creds,
                      W.serial, W.maxCalls)

\* the call t goes on: what it awaits settles (stop, Sandbox.create or its
\* timer, runCommand and the reading of its output) and it runs up to its next
\* await or to its end
Settles(t, W) ==
    \/ \E creds \in W.envs : Retry(t, creds)
    \/ \E creds \in W.envs, stopped \in BOOLEAN : StopOldDone(t, creds, stopped)
    \/ CreateSucceeds(t)
    \/ \E message \in ProviderMessages : CreateFails(t, message)
    \/ \E late \in BOOLEAN : CreateTimesOut(t, late)
    \/ \E result \in W.results, id \in W.ids : RunCommandReturns(t, result, id)
    \/ \E message \in ProviderMessages : RunCommandFails(t, message)
    \/ DeadStopDone(t)
    \/ \E result \in W.files.list : ListReturns(t, result)
    \/ \E result \in W.files.read : ReadReturns(t, result)
    \/ \E result \in W.files.grep : GrepReturns(t, result)
    \/ \E result \in W.files.find : FindReturns(t, result)
    \/ \E result \in W.files.fileGrep : FileGrepReturns(t, result)

\* the tools that run in a sandbox, called one at a time on one chat, whose id
\* holds "400"
Awaited ==
    [serial |-> TRUE, maxCalls |-> MaxLiveCalls, chats |-> {<<"chat-", "400">>},
     urls |-> Repos \cup {None}, envs |-> {{}},
     results |-> {r \in CommandResults : r.exitCode = 0},
     ids |-> {CHOOSE id \in CommandIds : TRUE}, files |-> FewFiles]

\* the call t takes a step other than its start
Goes(t) == Return(t) \/ (Delivered /\ Settles(t, Awaited))

LiveNext == \E t \in Tasks : Goes(t) \/ (Delivered /\ IssueTool(t, Awaited))

\* the tools that run in a sandbox, where whatever a call awaits settles in the
\* end: the provider answers or rejects, or the timer of the creation fires
LiveSpec == Init /\ [][LiveNext]_vars /\ \A t \in Tasks : WF_vars(Goes(t))

-----------------------------------------------------------------------------
(* The pure functions applied to drawn inputs.  bench holds the input, then *)
(* the output; the maps stay as they are after module load.                 *)

\* the strings of at most n tokens
Strings(alphabet, n) == UNION {[1..k -> alphabet] : k \in 0..n}

KeepMaps ==
    UNCHANGED <<sandboxByChatId, commandOutputsByChatId, task, nextHandle, stopAsked,
                completed, calls>>

\* truncateOutput(output, maxLines), sandbox.ts:188-211
TruncInit ==
    /\ Loaded
    /\ \E output \in Strings({"a", "b", NL}, MaxStrLen), maxLines \in 0..MaxBudget :
           bench = [op |-> "truncateOutput", output |-> output, maxLines |-> maxLines,
                    done |-> FALSE, out |-> truncateOutput(<<>>, maxLines)]

ApplyTruncateOutput ==
    /\ bench.op = "truncateOutput"
    /\ ~bench.done
    /\ bench' = [bench EXCEPT !.done = TRUE,
                              !.out = truncateOutput(bench.output, bench.maxLines)]
    /\ KeepMaps

TruncNext == ApplyTruncateOutput

TruncSpec == TruncInit /\ [][TruncNext]_vars

\* the first pass of a call on a chat with no sandbox, a repository url given,
\* under each environment: the credential check of getOrCreateSandbox,
\* sandbox.ts:138-148, up to the call of Sandbox.create
ProvisionInit ==
    /\ Loaded
    /\ \E env \in SUBSET CredNames, chatId \in ChatIds, repositoryUrl \in Repos,
          op \in {"resolve", "run", "list", "read", "search"} :
           bench = [op |-> "provision", env |-> env,
                    call |-> [IdleTask EXCEPT !.op = op, !.chatId = chatId,
                                              !.repositoryUrl = repositoryUrl,
                                              !.givenRepositoryUrl = repositoryUrl],
                    done |-> FALSE, out |-> Credentials({})]

ApplyProvision ==
    /\ bench.op = "provision"
    /\ ~bench.done
    /\ LET b == Attempt(bench.call, bench.env, sandboxByChatId, stopAsked)
       IN  /\ task' = [task EXCEPT ![1] = b.tk]
           /\ stopAsked' = b.stops
    /\ bench' = [bench EXCEPT !.done = TRUE, !.out = Credentials(bench.env)]
    /\ UNCHANGED <<sandboxByChatId, commandOutputsByChatId, nextHandle, completed,
                   calls>>

ProvisionNext == ApplyProvision

ProvisionSpec == ProvisionInit /\ [][ProvisionNext]_vars

\* searchCommandOutputTool.execute, sandbox.ts:859-963, on a store of at most two
\* records
SearchTexts == Strings({"a", "A", NL}, MaxSearchLen)

SearchStores ==
    LET first  == {[commandId |-> "id1", command |-> <<"cat", "x">>,
                    stdout |-> o, stderr |-> e, exitCode |-> 0] :
                       o \in SearchTexts, e \in SearchTexts}
        second == [commandId |-> "id2", command |-> <<"cat", "y">>,
                   stdout |-> <<"a", NL, "a">>, stderr |-> <<>>, exitCode |-> 1]
    IN  {<<>>} \cup {<<r>> : r \in first} \cup {<<r, second>> : r \in first}

SearchInit ==
    /\ Loaded
    /\ \E outputs \in SearchStores, commandId \in {None, "id1", "id2"},
          searchStdout \in BOOLEAN, searchStderr \in BOOLEAN, caseSensitive \in BOOLEAN,
          maxResults \in 0..MaxBudget :
           bench = [op |-> "searchCommandOutput", outputs |-> outputs,
                    pattern |-> <<"a">>, commandId |-> commandId,
                    searchStdout |-> searchStdout, searchStderr |-> searchStderr,
                    caseSensitive |-> caseSensitive, maxResults |-> maxResults,
                    done |-> FALSE, out |-> [success |-> FALSE]]

ApplySearchCommandOutput ==
    /\ bench.op = "searchCommandOutput"
    /\ ~bench.done
    /\ bench' = [bench EXCEPT
           !.done = TRUE,
           !.out = searchCommandOutput(bench.outputs, bench.pattern, bench.commandId,
                                       bench.searchStdout, bench.searchStderr,
                                       bench.caseSensitive, bench.maxResults)]
    /\ KeepMaps

SearchNext == ApplySearchCommandOutput

SearchSpec == SearchInit /\ [][SearchNext]_vars

\* a command runs and its record is searched: the end of runSandboxCommand,
\* sandbox.ts:317-360, then searchCommandOutput with the commandId returned, a
\* line of the output as the pattern and the defaults of the other inputs,
\* sandbox.ts:840-856
ViewInit ==
    /\ Loaded
    /\ \E stdout \in Strings({"a", "b", NL}, MaxStrLen),
          stderr \in {<<>>, <<"b", NL, "b", NL, "b">>},
          maxOutputLines \in 0..MaxBudget :
           bench = [op |-> "runThenSearch", stage |-> "start",
                    result |-> [exitCode |-> 0, stdout |-> stdout, stderr |-> stderr],
                    maxOutputLines |-> maxOutputLines,
                    outputs |-> <<>>, ret |-> NoRet,
                    stream |-> "none", lineNumber |-> 0, out |-> [success |-> FALSE]]

ViewRun ==
    /\ bench.op = "runThenSearch"
    /\ bench.stage = "start"
    /\ \E commandId \in CommandIds :
           LET r == RunReturn(bench.outputs, <<"cat", "x">>, commandId, bench.result,
                              bench.maxOutputLines)
           IN  bench' = [bench EXCEPT !.stage = "ran", !.outputs = r.outputs,
                                      !.ret = r.ret]
    /\ KeepMaps

\* the text of a stream of the record last pushed
StreamOf(outputs, stream) ==
    IF stream = "stdout" THEN outputs[Len(outputs)].stdout
                         ELSE outputs[Len(outputs)].stderr

ViewSearch(stream, lineNumber) ==
    /\ bench.op = "runThenSearch"
    /\ bench.stage = "ran"
    /\ LET lines == Split(StreamOf(bench.outputs, stream))
       IN  /\ lineNumber \in 1..Len(lines)
           /\ lines[lineNumber] # <<>>
           /\ bench' = [bench EXCEPT
                  !.stage = "searched",
                  !.stream = stream,
                  !.lineNumber = lineNumber,
                  !.out = searchCommandOutput(bench.outputs, lines[lineNumber],
                                              bench.ret.commandId, TRUE, TRUE, FALSE,
                                              DefaultMaxResults)]
    /\ KeepMaps

ViewNext ==
    \/ ViewRun
    \/ \E stream \in {"stdout", "stderr"}, lineNumber \in 1..(MaxStrLen + 1) :
           ViewSearch(stream, lineNumber)

ViewSpec == ViewInit /\ [][ViewNext]_vars

-----------------------------------------------------------------------------
(* What a finished call shows of its history *)

\* the entries of a trace that satisfy Keep
Only(trace, Keep(_)) == SelectSeq(trace, Keep)

Count(trace, what) == Len(Only(trace, LAMBDA e : e = what))

\* how the sandbox.runCommand calls of a call ended, in order
Outcomes(trace) == Only(trace, LAMBDA e : e \in {"run:ok", "run:dead", "run:error"})

\* the part of a trace after its first entry what (empty when there is none)
After(trace, what) ==
    IF \A i \in 1..Len(trace) : trace[i] # what THEN <<>>
    ELSE LET k == CHOOSE i \in 1..Len(trace) :
                      trace[i] = what /\ \A j \in 1..(i - 1) : trace[j] # what
         IN  SubSeq(trace, k + 1, Len(trace))

\* the runSandboxCommand calls that have settled and not been delivered yet
DoneRuns == {t \in Tasks : task[t].pc = "done" /\ task[t].op = "run"}

-----------------------------------------------------------------------------
(* Retry-once semantics of runSandboxCommand *)

\* C1: a runSandboxCommand call whose first sandbox.runCommand raised a
\* death-classified error and whose second one succeeded returns a result and
\* raises nothing; it made exactly two sandbox.runCommand calls; the registry
\* entry of its chat was evicted exactly once and, after the eviction,
\* provisioned exactly once (one Sandbox.create, one Map.set, nothing stopped
\* or deleted after it).
C1_RetryOnce ==
    \A t \in DoneRuns :
        LET tr == task[t].trace
        IN  (Len(Outcomes(tr)) >= 2 /\ Outcomes(tr)[1] = "run:dead"
                                    /\ Outcomes(tr)[2] = "run:ok")
            => /\ task[t].ret.kind = "run"
               /\ task[t].err = <<>>
               /\ Count(tr, "runCommand") = 2
               /\ Len(Outcomes(tr)) = 2
               /\ Count(tr, "evict") = 1
               /\ Only(After(tr, "evict"), LAMBDA e : e # "runCommand" /\ e # "run:ok")
                      = <<"create", "set">>
               /\ \E e \in MapGet(sandboxByChatId, task[t].chatId) : e.sandbox \notin stopAsked

\* C1, its case: a call has ended so, first run dead and second run fine
C1_Witness ==
    \E t \in DoneRuns : Outcomes(task[t].trace) = <<"run:dead", "run:ok">>

\* C2: a runSandboxCommand call whose two sandbox.runCommand calls both raised
\* death-classified errors raises "Failed to run command: ..." and returns no
\* result; and whatever fails, no call ever goes through the loop a third time
\* or makes a third sandbox.runCommand call.
C2_NoThirdAttempt ==
    /\ \A t \in Tasks :
           /\ task[t].retryCount <= 1
           /\ Count(task[t].trace, "runCommand") <= 2
    /\ \A t \in DoneRuns :
           Outcomes(task[t].trace) = <<"run:dead", "run:dead">>
           => /\ task[t].ret = NoRet
              /\ Len(task[t].err) > 1
              /\ task[t].err[1] = "Failed to run command: "
              /\ Count(task[t].trace, "runCommand") = 2

\* C2, its case: a call has ended after two dead runs
C2_Witness ==
    \E t \in DoneRuns : Outcomes(task[t].trace) = <<"run:dead", "run:dead">>

-----------------------------------------------------------------------------
(* The Session Registry *)

\* C3: whatever resolves, death evictions and teardowns have run, and however
\* they interleave, sandboxByChatId holds at most one entry for each chat id.
C3_AtMostOneSession ==
    \A c \in ChatIds : Cardinality(MapGet(sandboxByChatId, c)) <= 1

\* C3, its case: two calls created a sandbox for the same chat at the same
\* time, the second Map.set has run and the chat has an entry
C3_Witness ==
    \E t \in Tasks, u \in Tasks :
        /\ t # u
        /\ task[t].chatId = task[u].chatId
        /\ Count(task[t].trace, "set") > 0
        /\ Count(task[u].trace, "set") > 0
        /\ MapGet(sandboxByChatId, task[t].chatId) # {}

\* C10: when a sandbox is registered for the chat and getOrCreateSandbox is
\* called with no repository url or with the url of the registered sandbox,
\* it returns the registered sandbox at once, it calls neither Sandbox.create
\* nor stop() nor sandbox.runCommand (no liveness probe), and the registry is
\* left as it was.  The same holds of the resolve that runSandboxCommand
\* starts with: its only provider call is the runCommand of the command itself.
C10_Called(t) ==
    /\ task[t].pc = "idle"
    /\ task'[t].pc # "idle"
    /\ task'[t].op \in {"resolve", "run"}
    /\ MapGet(sandboxByChatId, task'[t].chatId) # {}
    /\ task'[t].repositoryUrl
           \in {None, Pick(MapGet(sandboxByChatId, task'[t].chatId)).repositoryUrl}

C10_ReturnsRegistered ==
    [][\A t \in Tasks :
           C10_Called(t)
           => /\ sandboxByChatId' = sandboxByChatId
              /\ stopAsked' = stopAsked
              /\ nextHandle' = nextHandle
              /\ task'[t].err = <<>>
              /\ IF task'[t].op = "resolve"
                 THEN /\ task'[t].pc = "done"
                      /\ task'[t].trace = <<>>
                      /\ task'[t].ret =
                             [kind |-> "sandbox",
                              sandbox |-> Pick(MapGet(sandboxByChatId,
                                                      task'[t].chatId)).sandbox]
                 ELSE /\ task'[t].pc = "running"
                      /\ task'[t].trace = <<"runCommand">>
                      /\ task'[t].sandbox =
                             Pick(MapGet(sandboxByChatId, task'[t].chatId)).sandbox]_vars

\* C10, its case: a direct getOrCreateSandbox with the url of the registered
\* sandbox has returned that sandbox, with no provider call made
C10_Witness ==
    \E t \in Tasks, e \in sandboxByChatId :
        /\ task[t].pc = "done"
        /\ task[t].op = "resolve"
        /\ task[t].chatId = e.chatId
        /\ task[t].repositoryUrl = e.repositoryUrl
        /\ task[t].ret = [kind |-> "sandbox", sandbox |-> e.sandbox]
        /\ task[t].trace = <<>>

-----------------------------------------------------------------------------
(* The Output Store *)

\* C4: after K runSandboxCommand calls of a chat have returned a result, with
\* no teardown since, commandOutputsByChatId holds exactly K records for the
\* chat and their commandIds are pairwise distinct.
C4_AppendOnlyLog ==
    \A c \in ChatIds :
        LET outputs == commandOutputsByChatId[c]
        IN  /\ Len(outputs) = completed[c]
            /\ \A i \in 1..Len(outputs), j \in 1..Len(outputs) :
                   i # j => outputs[i].commandId # outputs[j].commandId

\* C4, the part that holds: K records for K calls
C4_OneRecordEach ==
    \A c \in ChatIds : Len(commandOutputsByChatId[c]) = completed[c]

\* C4, the part that holds: a step either leaves the records of a chat alone,
\* or appends one record after them, or is a teardown that drops them all
C4_EarlierRecordsKept ==
    [][\A c \in ChatIds :
           LET old == commandOutputsByChatId[c]
               new == commandOutputsByChatId'[c]
           IN  \/ new = old
               \/ Len(new) = Len(old) + 1 /\ SubSeq(new, 1, Len(old)) = old
               \/ new = <<>> /\ \E t \in Tasks : task'[t].op \in {"cleanup", "cleanupAll"}]_vars

\* C4, its case: two calls of the chat have returned a result
C4_Reached ==
    \E c \in ChatIds : completed[c] = 2 /\ Len(commandOutputsByChatId[c]) = 2

\* C5: a runSandboxCommand call whose command ran to its end returns a result
\* and raises nothing, whatever the exit code: success is TRUE exactly when the
\* exit code of the command is 0, the exit code is returned as it is, and a
\* record with the returned commandId, the whole stdout, the whole stderr and
\* the exit code has been appended to the records of the chat.
C5_NonZeroExitIsAResult ==
    \A t \in DoneRuns :
        LET tk == task[t]
            outputs == commandOutputsByChatId[tk.chatId]
        IN  (Outcomes(tk.trace) # <<>>
             /\ Outcomes(tk.trace)[Len(Outcomes(tk.trace))] = "run:ok")
            => /\ tk.ret.kind = "run"
               /\ tk.err = <<>>
               /\ tk.ret.exitCode = tk.result.exitCode
               /\ tk.ret.success = (tk.result.exitCode = 0)
               /\ tk.ret.stderrLines = truncateOutput(tk.result.stderr, 0).totalLines
               /\ Len(outputs) = completed[tk.chatId]
               /\ outputs # <<>>
               /\ outputs[Len(outputs)] = [commandId |-> tk.ret.commandId,
                                           command   |-> tk.fullCommand,
                                           stdout    |-> tk.result.stdout,
                                           stderr    |-> tk.result.stderr,
                                           exitCode  |-> tk.result.exitCode]

\* C5, its case: a call has returned the result of a command that exited
\* non-zero and printed on stderr
C5_Witness ==
    \E t \in DoneRuns :
        /\ task[t].ret.kind = "run"
        /\ task[t].result.exitCode # 0
        /\ task[t].result.stderr # <<>>
        /\ ~task[t].ret.success

-----------------------------------------------------------------------------
(* The Truncated View and the search of the records *)

\* the lines of a text, none for the empty text
LinesOf(text) == IF text = <<>> THEN <<>> ELSE Split(text)

\* C7: for an output of N lines and a budget B, truncateOutput reports
\* totalLines = N and isTruncated = (N > B); when N > B the excerpt is the first
\* B div 2 lines, the marker of N - B omitted lines, and the last B div 2 lines.
C7_TruncationCorrect ==
    (bench.op = "truncateOutput" /\ bench.done)
    => LET lines == LinesOf(bench.output)
           N == Len(lines)
           B == bench.maxLines
           h == B \div 2
       IN  /\ bench.out.totalLines = N
           /\ bench.out.isTruncated = (N > B)
           /\ N > B => bench.out.truncated =
                           Join(SubSeq(lines, 1, h))
                           \o <<NL, OmissionMarker(N - B), NL>>
                           \o Join(SubSeq(lines, N - h + 1, N))

\* C7, the part that holds: the same for every budget of 2 lines or more, and
\* the two counts for every budget
C7_FromTwoLines ==
    (bench.op = "truncateOutput" /\ bench.done)
    => LET lines == LinesOf(bench.output)
           N == Len(lines)
           B == bench.maxLines
           h == B \div 2
       IN  /\ bench.out.totalLines = N
           /\ bench.out.isTruncated = (N > B)
           /\ (N > B /\ B >= 2) => bench.out.truncated =
                                       Join(SubSeq(lines, 1, h))
                                       \o <<NL, OmissionMarker(N - B), NL>>
                                       \o Join(SubSeq(lines, N - h + 1, N))

\* the pattern occurs somewhere in the line
LineMatches(line, pattern, caseSensitive) ==
    \E i \in 0..Len(line) : MatchAt(line, pattern, ~caseSensitive, i)

\* the lines of a stream of a record that match, as match tuples in line order
RECURSIVE MatchingLines(_, _, _, _, _, _)
MatchingLines(output, stream, lines, k, pattern, caseSensitive) ==
    IF k > Len(lines) THEN <<>>
    ELSE (IF LineMatches(lines[k], pattern, caseSensitive)
          THEN <<[commandId |-> output.commandId, command |-> output.command,
                  stream |-> stream, line |-> lines[k], lineNumber |-> k]>>
          ELSE <<>>)
         \o MatchingLines(output, stream, lines, k + 1, pattern, caseSensitive)

\* all the matching lines of the selected streams of the selected records: in
\* record order, stdout before stderr, then line order
RECURSIVE AllMatches(_, _, _, _, _)
AllMatches(outputs, pattern, searchStdout, searchStderr, caseSensitive) ==
    IF outputs = <<>> THEN <<>>
    ELSE LET o == Head(outputs)
         IN  (IF searchStdout
              THEN MatchingLines(o, "stdout", LinesOf(o.stdout), 1, pattern, caseSensitive)
              ELSE <<>>)
             \o (IF searchStderr
                 THEN MatchingLines(o, "stderr", LinesOf(o.stderr), 1, pattern,
                                    caseSensitive)
                 ELSE <<>>)
             \o AllMatches(Tail(outputs), pattern, searchStdout, searchStderr,
                           caseSensitive)

\* the matching lines of a search that has been made
BenchMatches ==
    AllMatches(IF bench.commandId = None THEN bench.outputs
               ELSE FilterByCommandId(bench.outputs, bench.commandId),
               bench.pattern, bench.searchStdout, bench.searchStderr,
               bench.caseSensitive)

Searched == bench.op = "searchCommandOutput" /\ bench.done

\* C8: searchCommandOutput reports every matching line of every selected
\* stream of every selected record and skips none: totalMatches is the number
\* of matching lines and the matches are their tuples in record order, stdout
\* before stderr, then line order (the first maxResults of them).
C8_EveryMatchingLine ==
    Searched
    => /\ bench.out.matches = SubSeq(BenchMatches, 1, Min(bench.maxResults,
                                                          Len(BenchMatches)))
       /\ "totalMatches" \in DOMAIN bench.out
              => bench.out.totalMatches = Len(BenchMatches)
       /\ "totalMatches" \notin DOMAIN bench.out => BenchMatches = <<>>

\* C9: with M matching lines and maxResults = R, if M > R the result holds R
\* matches, the first R, totalMatches = M and limited = TRUE; if M <= R the
\* result holds M matches, all of them, and limited is not TRUE.
C9_Capping ==
    Searched
    => LET M == Len(BenchMatches)
           R == bench.maxResults
           limited == "limited" \in DOMAIN bench.out /\ bench.out.limited
       IN  IF M > R
           THEN /\ Len(bench.out.matches) = R
                /\ bench.out.matches = SubSeq(BenchMatches, 1, R)
                /\ "totalMatches" \in DOMAIN bench.out
                /\ bench.out.totalMatches = M
                /\ limited
           ELSE /\ Len(bench.out.matches) = M
                /\ bench.out.matches = BenchMatches
                /\ ~limited

\* C9, the part that holds: the cap as the code counts the matches.  The result
\* holds the first maxResults of the totalMatches lines it found, and limited
\* tells whether it found more.
C9_CapOfFound ==
    (Searched /\ "totalMatches" \in DOMAIN bench.out)
    => /\ Len(bench.out.matches) = Min(bench.out.totalMatches, bench.maxResults)
       /\ bench.out.limited = (bench.out.totalMatches > bench.maxResults)
       /\ bench.out.matchCount = bench.out.totalMatches

\* the lines of a text that truncateOutput leaves out of its excerpt
OmittedLines(text, maxLines) ==
    LET lines == LinesOf(text)
        firstLines == JsSlice(lines, 0, maxLines \div 2)
        lastLines  == JsSliceFrom(lines, -(maxLines \div 2))
    IN  IF Len(lines) > maxLines
        THEN {k \in 1..Len(lines) : k > Len(firstLines) /\ k <= Len(lines) - Len(lastLines)}
        ELSE {}

\* C6: the record pushed by runSandboxCommand holds the whole stdout and the
\* whole stderr whatever maxOutputLines is, and a line left out of the returned
\* view is among the matches of searchCommandOutput called with the returned
\* commandId and that line as the pattern.
C6_OmittedLinesFound ==
    /\ (bench.op = "runThenSearch" /\ bench.stage # "start")
       => /\ bench.outputs[Len(bench.outputs)].stdout = bench.result.stdout
          /\ bench.outputs[Len(bench.outputs)].stderr = bench.result.stderr
    /\ (bench.op = "runThenSearch" /\ bench.stage = "searched"
        /\ bench.lineNumber \in OmittedLines(StreamOf(bench.outputs, bench.stream),
                                             bench.maxOutputLines))
       => \E i \in 1..Len(bench.out.matches) :
              /\ bench.out.matches[i].stream = bench.stream
              /\ bench.out.matches[i].lineNumber = bench.lineNumber
              /\ bench.out.matches[i].commandId = bench.ret.commandId

\* C6, the part that holds: the record holds the whole of both streams
C6_WholeOutputStored ==
    (bench.op = "runThenSearch" /\ bench.stage # "start")
    => /\ bench.outputs[Len(bench.outputs)].stdout = bench.result.stdout
       /\ bench.outputs[Len(bench.outputs)].stderr = bench.result.stderr

-----------------------------------------------------------------------------
(* Replacement of a sandbox and the provisioning deadline *)

Last(trace) == trace[Len(trace)]

\* the calls that found a sandbox of another repository registered and began
\* by stopping it
Replacing == {t \in Tasks : /\ task[t].op \in {"resolve", "run"}
                            /\ task[t].trace # <<>>
                            /\ task[t].trace[1] = "stop"}

\* C11: when getOrCreateSandbox replaces the sandbox of a chat by one of another
\* repository, the old sandbox has been asked to stop and its entry deleted by
\* the time Sandbox.create is called; a stop() that rejects changes nothing:
\* once the create has resolved getOrCreateSandbox returns the new sandbox, and
\* the registry entry of the chat is that sandbox with the new url.
C11_StopThenProvision ==
    \A t \in Replacing :
        LET tk == task[t]
            tr == tk.trace
            registered == MapGet(sandboxByChatId, tk.chatId)
        IN  /\ (Len(tr) >= 2 /\ tr[2] = "stop:error")
               => Len(tr) >= 3 /\ tr[3] = "replace"
            /\ (tk.pc = "creating" /\ Count(tr, "create") = 1)
               => /\ tk.existing # {}
                  /\ Pick(tk.existing).sandbox \in stopAsked
                  /\ registered = {}
                  /\ tr \in {<<"stop", "replace", "create">>,
                            <<"stop", "stop:error", "replace", "create">>}
            /\ (tk.op = "resolve" /\ tk.pc = "done" /\ Count(tr, "create") = 1
                /\ \A i \in 1..Len(tr) :
                       tr[i] \in {"stop", "stop:error", "replace", "create", "set"})
               => /\ tk.err = <<>>
                  /\ tk.ret.kind = "sandbox"
                  /\ tk.ret.sandbox \notin stopAsked
                  /\ Last(tr) = "set"
                  /\ registered = {[chatId |-> tk.chatId, sandbox |-> tk.ret.sandbox,
                                    repositoryUrl |-> tk.repositoryUrl]}
            /\ (tk.op = "run" /\ tk.pc = "running" /\ tk.retryCount = 0)
               => registered = {[chatId |-> tk.chatId, sandbox |-> tk.sandbox,
                                 repositoryUrl |-> tk.repositoryUrl]}

\* C11, its case: the stop of the old sandbox rejected and getOrCreateSandbox
\* has returned the new one
C11_Witness ==
    \E t \in Replacing :
        /\ task[t].op = "resolve"
        /\ task[t].pc = "done"
        /\ task[t].trace = <<"stop", "stop:error", "replace", "create", "set">>
        /\ task[t].ret.kind = "sandbox"

\* C19: when the 10 minute timer fires before Sandbox.create has resolved, the
\* call ends there with the timeout error (wrapped by the tool), no sandbox is
\* registered for the chat, also when the create call makes a sandbox later;
\* the timeout message is not death-classified and nothing is retried.
C19_TimeoutIsTerminal ==
    /\ ~isSandboxDeadError(CreationTimeoutMessage)
    /\ \A t \in Tasks :
           LET tk == task[t]
           IN  (\E i \in 1..Len(tk.trace) : tk.trace[i] = "create:timeout")
               => /\ Last(tk.trace) = "create:timeout"
                  /\ Count(tk.trace, "create:timeout") = 1
                  /\ tk.pc = "done"
                  /\ tk.ret = NoRet
                  /\ tk.err = IF tk.op = "resolve" THEN CreationTimeoutMessage
                              ELSE RunFailedMessage(CreationTimeoutMessage)
                  /\ MapGet(sandboxByChatId, tk.chatId) = {}

\* C19, its case: the timer has fired and the create call has made a sandbox
\* after it
C19_Witness ==
    \E t \in Tasks :
        /\ task[t].pc = "done"
        /\ Len(task[t].trace) >= 2
        /\ Last(task[t].trace) = "create:timeout"
        /\ task[t].trace[Len(task[t].trace) - 1] = "create:late"
        /\ nextHandle > 1

-----------------------------------------------------------------------------
(* The errors of the tools *)

\* the sandbox operations: the tools that resolve a sandbox and run a command
SandboxOps == {"run", "list", "read", "search"}

\* C12: a sandbox operation called with no repository url on a chat that has no
\* registered sandbox fails with the missing-repository error at once: it
\* throws it once, is not retried, makes no provider call and deletes nothing.
C12_MissingRepositoryIsTerminal ==
    \A t \in Tasks :
        LET tk == task[t]
        IN  (tk.op \in SandboxOps /\ Includes(tk.trace, "throw:missing"))
            => /\ tk.trace = <<"throw:missing">>
               /\ tk.retryCount = 0
               /\ tk.pc = "done"
               /\ tk.err = ToolFailedMessage(tk.op, MissingRepositoryMessage(tk.chatId))

\* C12, the part that holds: the same on the chats whose id holds none of the
\* markers isSandboxDeadError looks for; and on every chat no provider call is
\* made and nothing is deleted, however often the error is thrown
C12_TerminalOnPlainChats ==
    \A t \in Tasks :
        LET tk == task[t]
        IN  (tk.op \in SandboxOps /\ Includes(tk.trace, "throw:missing"))
            => /\ \A i \in 1..Len(tk.trace) : tk.trace[i] = "throw:missing"
               /\ ~isSandboxDeadError(tk.chatId)
                  => /\ tk.trace = <<"throw:missing">>
                     /\ tk.retryCount = 0
                     /\ tk.pc = "done"
                     /\ tk.err = ToolFailedMessage(tk.op,
                                                   MissingRepositoryMessage(tk.chatId))

\* C12: the error has been thrown twice by one call
C12_ThrownTwice ==
    \E t \in Tasks : Count(task[t].trace, "throw:missing") = 2 /\ task[t].pc = "done"

\* the i-th entry of the call's trace is an error that is not death-classified
NotDeadFailure(tk, i) ==
    \/ tk.trace[i] \in {"run:error", "create:error", "create:timeout",
                        "throw:credentials", "throw:error"}
    \/ tk.trace[i] = "throw:missing"
       /\ ~isSandboxDeadError(MissingRepositoryMessage(tk.chatId))

\* the sandbox of the chat is registered and was not asked to stop
SessionKept(chatId) ==
    /\ MapGet(sandboxByChatId, chatId) # {}
    /\ Pick(MapGet(sandboxByChatId, chatId)).sandbox \notin stopAsked

\* C13: an error of a sandbox operation that is not death-classified ends the
\* call in the attempt it happens in: the call fails with it and nothing
\* follows it, no second invocation, no stop, no eviction, no creation; when a
\* command raised it, the sandbox it ran on stays registered and is not stopped.
C13_OtherErrorsNotRetried ==
    \A t \in Tasks :
        LET tk == task[t]
        IN  tk.op \in SandboxOps
            => \A i \in 1..Len(tk.trace) :
                   NotDeadFailure(tk, i)
                   => /\ i = Len(tk.trace)
                      /\ tk.pc = "done"
                      /\ tk.ret = NoRet
                      /\ tk.err # <<>>
                      /\ tk.trace[i] \in {"run:error", "throw:error"}
                         => SessionKept(tk.chatId)

\* C13: a command of a first attempt has been rejected with such an error
C13_Witness ==
    \E t \in Tasks :
        /\ task[t].op \in SandboxOps
        /\ task[t].pc = "done"
        /\ task[t].retryCount = 0
        /\ Last(task[t].trace) = "run:error"
        /\ task[t].err = ToolFailedMessage(task[t].op, <<"socket hang up">>)
        /\ SessionKept(task[t].chatId)

\* the trace entries of a command that exited with a code other than 0
NonZeroExits == {"exit:" \o ToString(n) : n \in 1..2}

\* C14: in readSandboxFile a non-zero exit of cat is terminal whatever cat wrote
\* to stderr: the call fails with the read error carrying that stderr, nothing
\* follows (no stop, no eviction, no creation, no second cat), and the sandbox
\* stays registered and is not stopped.
C14_ReadFailureIsTerminal ==
    \A t \in Tasks :
        LET tk == task[t]
        IN  tk.op = "read"
            => \A i \in 1..Len(tk.trace) :
                   tk.trace[i] \in NonZeroExits
                   => /\ Len(tk.trace) = i + 1
                      /\ tk.pc = "done"
                      /\ tk.err = ReadFailedMessage(ReadFailedMessage(tk.result.stderr))
                      /\ SessionKept(tk.chatId)

\* C14, the part that holds: the same when the stderr of cat holds none of the
\* markers isSandboxDeadError looks for
C14_TerminalOnPlainStderr ==
    \A t \in Tasks :
        LET tk == task[t]
        IN  tk.op = "read"
            => \A i \in 1..Len(tk.trace) :
                   tk.trace[i] \in NonZeroExits
                   => /\ Len(tk.trace) > i
                      /\ tk.trace[i + 1] \in {"throw:error", "throw:dead"}
                      /\ tk.trace[i + 1] = "throw:error"
                         => /\ Len(tk.trace) = i + 1
                            /\ tk.pc = "done"
                            /\ tk.err = ReadFailedMessage(
                                            ReadFailedMessage(tk.result.stderr))
                            /\ ~isSandboxDeadError(tk.result.stderr)
                            /\ SessionKept(tk.chatId)

\* C14: after a non-zero exit of cat the sandbox was evicted, a new one made,
\* and the file read from it
C14_ReadAgain ==
    \E t \in Tasks :
        /\ task[t].op = "read"
        /\ task[t].pc = "done"
        /\ task[t].ret.kind = "read"
        /\ \E i \in 1..Len(task[t].trace) : task[t].trace[i] \in NonZeroExits

-----------------------------------------------------------------------------
(* searchSandboxFiles *)

\* the trace entries of a command that has exited
Exits == {"exit:" \o ToString(n) : n \in 0..2}

\* the call t has ended with the error of a search that exited with an error
SearchFailed(tk) ==
    /\ tk.pc = "done"
    /\ tk.ret = NoRet
    /\ tk.err = SearchFailedMessage(SearchFailedMessage(tk.result.stderr))

\* C15: a search with no file pattern, or the pattern "*", runs grep -r and
\* nothing else; each result of grep -r ends the call, and comes from one
\* invocation: exit code 0 yields the parsed matches, exit code 1 success with
\* no match, any other exit code the failure of the call.
C15_TreeSearchByExitCode ==
    \A t \in Tasks :
        LET tk == task[t]
        IN  (tk.op = "search" /\ ~Restricted(tk.filePattern))
            => /\ ~Includes(tk.trace, "find")
               /\ ~Includes(tk.trace, "grep")
               /\ \A i \in 1..Len(tk.trace) :
                      tk.trace[i] \in Exits
                      => /\ i > 1
                         /\ tk.trace[i - 1] = "grep -r"
                         /\ tk.pc = "done"
                         /\ IF tk.trace[i] = "exit:0"
                            THEN /\ i = Len(tk.trace)
                                 /\ tk.ret.kind = "search"
                                 /\ tk.ret.success
                                 /\ tk.ret.matches
                                        = TreeMatches(SearchPath, tk.result.stdout,
                                                      tk.includeLineNumbers)
                                 /\ tk.ret.matchCount
                                        = Len(NonBlankLines(tk.result.stdout))
                            ELSE IF tk.trace[i] = "exit:1"
                            THEN /\ i = Len(tk.trace)
                                 /\ tk.ret.kind = "search"
                                 /\ tk.ret.success
                                 /\ tk.ret.matches = <<>>
                            ELSE /\ Len(tk.trace) = i + 1
                                 /\ SearchFailed(tk)

\* C15, the part that holds: the same, but for the exit codes other than 0 and 1
\* when the stderr of grep holds a marker isSandboxDeadError looks for
C15_ByExitCodeOnPlainStderr ==
    \A t \in Tasks :
        LET tk == task[t]
        IN  (tk.op = "search" /\ ~Restricted(tk.filePattern))
            => /\ ~Includes(tk.trace, "find")
               /\ ~Includes(tk.trace, "grep")
               /\ \A i \in 1..Len(tk.trace) :
                      tk.trace[i] \in Exits
                      => /\ i > 1
                         /\ tk.trace[i - 1] = "grep -r"
                         /\ IF tk.trace[i] = "exit:0"
                            THEN /\ i = Len(tk.trace)
                                 /\ tk.pc = "done"
                                 /\ tk.ret.kind = "search"
                                 /\ tk.ret.success
                                 /\ tk.ret.matches
                                        = TreeMatches(SearchPath, tk.result.stdout,
                                                      tk.includeLineNumbers)
                                 /\ tk.ret.matchCount
                                        = Len(NonBlankLines(tk.result.stdout))
                            ELSE IF tk.trace[i] = "exit:1"
                            THEN /\ i = Len(tk.trace)
                                 /\ tk.pc = "done"
                                 /\ tk.ret.kind = "search"
                                 /\ tk.ret.success
                                 /\ tk.ret.matches = <<>>
                            ELSE /\ Len(tk.trace) > i
                                 /\ tk.trace[i + 1] \in {"throw:error", "throw:dead"}
                                 /\ tk.trace[i + 1] = "throw:error"
                                    => /\ Len(tk.trace) = i + 1
                                       /\ SearchFailed(tk)

\* C15: grep -r exited with code 2, and the search ran it again and succeeded
C15_SearchedAgain ==
    \E t \in Tasks :
        /\ task[t].op = "search"
        /\ ~Restricted(task[t].filePattern)
        /\ task[t].pc = "done"
        /\ task[t].ret.kind = "search"
        /\ Includes(task[t].trace, "exit:2")
        /\ Count(task[t].trace, "grep -r") = 2

\* C16: in a search restricted to a file pattern, when find exits with code 0
\* and names no file (its output is empty or blank lines), the call returns
\* success with no match and a message; no grep is run and no error is raised.
\* When find names files, the search goes on with the grep of the first.
C16_NoFilesIsSuccess ==
    \A t \in Tasks :
        LET tk == task[t]
        IN  (tk.op = "search" /\ Restricted(tk.filePattern))
            => \A i \in 2..Len(tk.trace) :
                   (tk.trace[i - 1] = "find" /\ tk.trace[i] = "exit:0")
                   => IF i = Len(tk.trace)
                      THEN /\ FoundFiles(tk.result.stdout) = <<>>
                           /\ tk.pc = "done"
                           /\ tk.err = <<>>
                           /\ tk.ret.kind = "search"
                           /\ tk.ret.success
                           /\ tk.ret.matches = <<>>
                           /\ "message" \in DOMAIN tk.ret
                      ELSE /\ tk.trace[i + 1] = "grep"
                           /\ Len(tk.trace) = i + 1
                              => /\ FoundFiles(tk.result.stdout) # <<>>
                                 /\ tk.files = FoundFiles(tk.result.stdout)

\* C16: find printed blank lines only, and the search has returned
C16_Witness ==
    \E t \in Tasks :
        /\ task[t].op = "search"
        /\ Restricted(task[t].filePattern)
        /\ task[t].pc = "done"
        /\ Last(task[t].trace) = "exit:0"
        /\ task[t].result.stdout = <<" ", NL>>
        /\ task[t].ret.kind = "search"
        /\ task[t].ret.matches = <<>>
        /\ ~Includes(task[t].trace, "grep")

\* C17: in a search restricted to a file pattern, the grep of a file that exits
\* with a code other than 0 and 1 makes the call fail: the error is thrown at
\* that exit and the call never returns the matches of the other files.
C17_FileGrepErrorFails ==
    \A t \in Tasks :
        LET tk == task[t]
        IN  (tk.op = "search" /\ Restricted(tk.filePattern))
            => \A i \in 2..Len(tk.trace) :
                   (tk.trace[i - 1] = "grep" /\ tk.trace[i] = "exit:2")
                   => /\ tk.pc = "done"
                      /\ tk.ret = NoRet
                      /\ tk.err # <<>>

\* C17: the grep of one file exited with code 2, and the call has returned
\* success with the matches of the other file
C17_PartialResults ==
    \E t \in Tasks :
        /\ task[t].op = "search"
        /\ Restricted(task[t].filePattern)
        /\ \E i \in 2..Len(task[t].trace) :
               task[t].trace[i - 1] = "grep" /\ task[t].trace[i] = "exit:2"
        /\ task[t].pc = "done"
        /\ task[t].ret.kind = "search"
        /\ task[t].ret.success
        /\ task[t].ret.matches # <<>>

-----------------------------------------------------------------------------
(* The credentials of a new sandbox *)

\* the error of the credential check as the call's caller gets it
CredentialFailure(tk) ==
    /\ tk.pc = "done"
    /\ tk.trace = <<"throw:credentials">>
    /\ tk.err = IF tk.op = "resolve" THEN CredentialMessage
                ELSE ToolFailedMessage(tk.op, CredentialMessage)

\* Sandbox.create is being called, nothing thrown before it
CreateCalled(tk) == tk.pc = "creating" /\ tk.trace = <<"create">>

\* C18: for each of the eight combinations of VERCEL_TEAM_ID,
\* VERCEL_PROJECT_ID and VERCEL_TOKEN in the environment: with the three set,
\* Sandbox.create is called with the three attached; with none set, it is
\* called with none attached; with one or two set, the call fails with the
\* credential error and Sandbox.create is not called.
C18_AllOrNone ==
    (bench.op = "provision" /\ bench.done)
    => LET n == Cardinality(bench.env)
       IN  /\ n = 3 => CreateCalled(task[1]) /\ bench.out.attached = CredNames
           /\ n = 0 => CreateCalled(task[1]) /\ bench.out.attached = {}
           /\ n \in {1, 2} => CredentialFailure(task[1]) /\ bench.out.throws

\* C18, the part that holds: the token decides.  With the token and the two ids,
\* the three are attached; with the token and an id missing, the call fails
\* before Sandbox.create; without the token nothing is attached and
\* Sandbox.create is called, whatever ids are set
C18_TokenDecides ==
    (bench.op = "provision" /\ bench.done)
    => IF "VERCEL_TOKEN" \notin bench.env
       THEN CreateCalled(task[1]) /\ bench.out.attached = {}
       ELSE IF bench.env = CredNames
       THEN CreateCalled(task[1]) /\ bench.out.attached = CredNames
       ELSE CredentialFailure(task[1]) /\ bench.out.throws

\* C18: the two ids are set, the token is not, and Sandbox.create is called
\* with nothing attached
C18_IdsWithoutToken ==
    /\ bench.op = "provision"
    /\ bench.done
    /\ bench.env = {"VERCEL_TEAM_ID", "VERCEL_PROJECT_ID"}
    /\ CreateCalled(task[1])
    /\ bench.out.attached = {}

-----------------------------------------------------------------------------
(* What changes the command outputs of a chat *)

\* a runSandboxCommand call on the chat returns, one record pushed
RunAppends(chatId) ==
    \E t \in Tasks :
        /\ task[t].op = "run"
        /\ task[t].chatId = chatId
        /\ task[t].pc = "running"
        /\ task'[t].pc = "done"
        /\ task'[t].ret.kind = "run"
        /\ Len(commandOutputsByChatId'[chatId]) = Len(commandOutputsByChatId[chatId]) + 1
        /\ SubSeq(commandOutputsByChatId'[chatId], 1, Len(commandOutputsByChatId[chatId]))
               = commandOutputsByChatId[chatId]

\* cleanupSandbox of the chat, or cleanupAllSandboxes, finishes
TornDown(chatId) ==
    \E t \in Tasks :
        /\ task[t].pc # "done"
        /\ task'[t].pc = "done"
        /\ \/ task'[t].op = "cleanup" /\ task'[t].chatId = chatId
           \/ task'[t].op = "cleanupAll"
        /\ commandOutputsByChatId'[chatId] = <<>>

\* a call deletes the registry entry of its chat, for a dead sandbox or for
\* another repository
Evicts(t) ==
    \/ Count(task'[t].trace, "evict") > Count(task[t].trace, "evict")
    \/ Count(task'[t].trace, "replace") > Count(task[t].trace, "replace")

-----------------------------------------------------------------------------
(* Teardown *)

\* the call t begins in this step
Begins(t) == task[t].pc = "idle" /\ task'[t].pc # "idle"

\* the call t ends in this step
Finishes(t) == task[t].pc # "done" /\ task'[t].pc = "done"

\* the sandboxes registered
Registered == {e.sandbox : e \in sandboxByChatId}

\* C21: cleanupSandbox of a chat asks the sandbox registered for it to stop and,
\* whether that stop resolves or rejects, ends without an error with the
\* registry entry and the command outputs of the chat deleted, and those of
\* every other chat as they were; cleanupAllSandboxes asks every registered
\* sandbox to stop and, whether the stops resolve or reject, ends without an
\* error with the registry and the command outputs empty.
C21_Teardown ==
    [][\A t \in Tasks :
           /\ (Begins(t) /\ task'[t].op = "cleanup")
              => {e.sandbox : e \in MapGet(sandboxByChatId, task'[t].chatId)}
                     \subseteq stopAsked'
           /\ (Begins(t) /\ task'[t].op = "cleanupAll") => Registered \subseteq stopAsked'
           /\ (Finishes(t) /\ task'[t].op = "cleanup")
              => /\ task'[t].err = <<>>
                 /\ MapGet(sandboxByChatId', task'[t].chatId) = {}
                 /\ commandOutputsByChatId'[task'[t].chatId] = <<>>
                 /\ \A d \in ChatIds \ {task'[t].chatId} :
                        /\ MapGet(sandboxByChatId', d) = MapGet(sandboxByChatId, d)
                        /\ commandOutputsByChatId'[d] = commandOutputsByChatId[d]
           /\ (Finishes(t) /\ task'[t].op = "cleanupAll")
              => /\ task'[t].err = <<>>
                 /\ sandboxByChatId' = {}
                 /\ \A d \in ChatIds : commandOutputsByChatId'[d] = <<>>]_vars

\* C21: the stop asked by cleanupSandbox rejected and the teardown is done; the
\* other chat has its sandbox and its records
C21_Witness ==
    \E t \in Tasks :
        /\ task[t].op = "cleanup"
        /\ task[t].pc = "done"
        /\ task[t].trace = <<"stop", "stop:error", "teardown">>
        /\ MapGet(sandboxByChatId, task[t].chatId) = {}
        /\ \E d \in ChatIds \ {task[t].chatId} :
               /\ MapGet(sandboxByChatId, d) # {}
               /\ commandOutputsByChatId[d] # <<>>

-----------------------------------------------------------------------------
(* Death and recovery *)

\* C22: no call ends leaving registered a sandbox it has classified as dead:
\* when a command of a sandbox operation is rejected with a death-classified
\* error, on the first attempt or on the retry, the registry entry of the chat
\* is deleted before the call ends.
C22_DeadIsEvicted ==
    \A t \in Tasks :
        LET tk == task[t]
        IN  (tk.op \in SandboxOps /\ tk.pc = "done" /\ Includes(tk.trace, "run:dead")
             /\ Last(tk.trace) = "run:dead")
            => MapGet(sandboxByChatId, tk.chatId) = {}

\* C22, the part that holds: the rejection of a command with a death-classified
\* error, when no death-classified error came before it in the call, is
\* followed by the stop of the sandbox and the deletion of its entry
C22_FirstDeathEvicts ==
    \A t \in Tasks :
        LET tk == task[t]
        IN  tk.op \in SandboxOps
            => \A i \in 1..Len(tk.trace) :
                   (tk.trace[i] = "run:dead"
                    /\ \A j \in 1..(i - 1) : tk.trace[j] \notin {"run:dead", "create:dead", "throw:dead",
                                                        "throw:missing"})
                   => /\ Len(tk.trace) > i
                      /\ tk.trace[i + 1] = "stop"
                      /\ Len(tk.trace) > i + 1 => tk.trace[i + 2] = "evict"
                      /\ Len(tk.trace) = i + 1 => tk.pc = "deadStop"

\* C22: the command of the retry was rejected with a death-classified error,
\* the call has ended, and the sandbox is registered and was not asked to stop
C22_DeadLeftRegistered ==
    \E t \in Tasks :
        /\ task[t].op \in SandboxOps
        /\ task[t].pc = "done"
        /\ task[t].retryCount = 1
        /\ Last(task[t].trace) = "run:dead"
        /\ SessionKept(task[t].chatId)

\* the i-th entry of the call's trace is a death-classified error
DeadFailure(tk, i) ==
    \/ tk.trace[i] \in {"run:dead", "create:dead", "throw:dead"}
    \/ tk.trace[i] = "throw:missing"
       /\ isSandboxDeadError(MissingRepositoryMessage(tk.chatId))

\* the command a file tool begins with
FirstCommand(tk) ==
    IF tk.op = "search"
    THEN IF Restricted(tk.filePattern) THEN "find" ELSE "grep -r"
    ELSE "runCommand"

\* C23: listSandboxFiles, readSandboxFile and searchSandboxFiles retry as
\* runSandboxCommand does.  A death-classified error of a command, when none
\* came before it in the call, is followed by the stop and the eviction of the
\* sandbox and by a new pass that provisions a sandbox and begins the operation
\* again with its first command; a call is retried once at most; any error
\* after a death-classified one, and any error that is not death-classified,
\* ends the call with that error.
C23_FileToolsRetryOnce ==
    \A t \in Tasks :
        LET tk == task[t]
            tr == tk.trace
        IN  tk.op \in {"list", "read", "search"}
            => /\ tk.retryCount <= 1
               /\ Cardinality({i \in 1..Len(tr) : DeadFailure(tk, i)}) <= 2
               /\ \A i \in 1..Len(tr) :
                      /\ (tr[i] \in {"run:dead", "throw:dead"}
                          /\ \A j \in 1..(i - 1) : ~DeadFailure(tk, j))
                         => /\ Len(tr) > i
                            /\ tr[i + 1] = "stop"
                            /\ Len(tr) > i + 1 => tr[i + 2] = "evict"
                            /\ Len(tr) > i + 2
                               => tr[i + 3] \in {"create", "throw:credentials"}
                            /\ tk.retryCount = IF Len(tr) > i + 1 THEN 1 ELSE 0
                      /\ ((DeadFailure(tk, i) /\ \E j \in 1..(i - 1) : DeadFailure(tk, j))
                          \/ NotDeadFailure(tk, i))
                         => /\ i = Len(tr)
                            /\ tk.pc = "done"
                            /\ tk.ret = NoRet
                            /\ tk.err # <<>>
                      /\ (tr[i] = "set" /\ Len(tr) > i) => tr[i + 1] = FirstCommand(tk)

\* C23: a search by file pattern lost its sandbox while grepping a file, began
\* again with find on a new sandbox, and returned
C23_Witness ==
    \E t \in Tasks :
        /\ task[t].op = "search"
        /\ task[t].pc = "done"
        /\ task[t].ret.kind = "search"
        /\ task[t].retryCount = 1
        /\ Count(task[t].trace, "find") = 2
        /\ \E i \in 2..Len(task[t].trace) :
               /\ task[t].trace[i - 1] = "grep"
               /\ task[t].trace[i] = "run:dead"
               /\ SubSeq(task[t].trace, i + 1, i + 5)
                      = <<"stop", "evict", "create", "set", "find">>

\* the call t registers a new sandbox in this step
Registers(t) ==
    /\ task[t].pc = "creating"
    /\ Len(task'[t].trace) > Len(task[t].trace)
    /\ task'[t].trace[Len(task[t].trace) + 1] = "set"

\* C24: with the calls of a chat issued one at a time, the recovery from a dead
\* sandbox provisions the repository the operation was using.  When the caller
\* gave no repository url the eviction yields the url of the evicted sandbox,
\* when the caller gave one it is the url of the evicted sandbox and is kept;
\* the call keeps that url to its end and the sandbox it registers after the
\* eviction is bound to it.
C24_RecoveryKeepsRepository ==
    [][\A t \in Tasks :
           LET tk == task[t]
           IN  /\ (tk.pc = "deadStop" /\ task'[t].pc = "attempt")
                  => LET bound == Pick(tk.existing).repositoryUrl
                     IN  /\ bound # None
                         /\ task'[t].repositoryUrl = bound
                         /\ tk.givenRepositoryUrl # None => tk.givenRepositoryUrl = bound
               /\ (Includes(tk.trace, "evict") /\ task'[t].pc # "idle")
                  => task'[t].repositoryUrl = tk.repositoryUrl
               /\ (Includes(tk.trace, "evict") /\ Registers(t))
                  => MapGet(sandboxByChatId', tk.chatId)
                         = {[chatId |-> tk.chatId, sandbox |-> nextHandle,
                             repositoryUrl |-> tk.repositoryUrl]}]_vars

\* C24: a command called with no repository url lost its sandbox, and has
\* returned from a new sandbox of the same repository
C24_Witness ==
    \E t \in Tasks :
        /\ task[t].op = "run"
        /\ task[t].givenRepositoryUrl = None
        /\ task[t].pc = "done"
        /\ task[t].ret.kind = "run"
        /\ task[t].trace = <<"runCommand", "run:dead", "stop", "evict", "create", "set",
                             "runCommand", "run:ok">>
        /\ task[t].repositoryUrl # None
        /\ \E e \in MapGet(sandboxByChatId, task[t].chatId) :
               e.repositoryUrl = task[t].repositoryUrl

-----------------------------------------------------------------------------
(* Calls on different chats *)

\* the step is a step of the call t
Moves(t) == task'[t] # task[t]

\* the call t as it is in the step: as it was, or as it begins
Mover(t) == IF InFlight(t) THEN task[t] ELSE task'[t]

\* the call t, not yet settled, can take a step whatever the other calls are at
CanStep(t) ==
    ENABLED (\/ \E creds \in Tools.envs : Retry(t, creds)
             \/ \E creds \in Tools.envs, stopped \in BOOLEAN : StopOldDone(t, creds, stopped)
             \/ \E message \in ProviderMessages : CreateFails(t, message)
             \/ \E message \in ProviderMessages : RunCommandFails(t, message)
             \/ DeadStopDone(t))

\* C25: a step of a run, list, read, search or getOrCreateSandbox call on a chat,
\* the recovery from a dead sandbox included, leaves the registry entry and the
\* command outputs of every other chat as they are and asks no sandbox of
\* another chat to stop; and a call that awaits a provider call waits for
\* nothing else: its next step can be taken whatever the calls of the other
\* chats are at.
C25_NoInterference ==
    /\ [](\A t \in Tasks :
              (task[t].op \in SandboxOps \cup {"resolve"} /\ task[t].pc # "done"
               /\ Delivered)
              => CanStep(t))
    /\ [][\A t \in Tasks :
              (Moves(t) /\ Mover(t).op \in SandboxOps \cup {"resolve"})
              => \A d \in ChatIds \ {Mover(t).chatId} :
                     /\ MapGet(sandboxByChatId', d) = MapGet(sandboxByChatId, d)
                     /\ commandOutputsByChatId'[d] = commandOutputsByChatId[d]
                     /\ \A e \in MapGet(sandboxByChatId, d) :
                            e.sandbox \in stopAsked' => e.sandbox \in stopAsked]_vars

\* C25: a call on one chat has evicted its dead sandbox while a call on another
\* chat is running a command on the sandbox of that chat
C25_Witness ==
    \E t, u \in Tasks :
        /\ task[t].op \in SandboxOps
        /\ task[u].op \in SandboxOps
        /\ task[t].chatId # task[u].chatId
        /\ Last(task[t].trace) = "evict"
        /\ task[u].pc = "running"
        /\ \E e \in MapGet(sandboxByChatId, task[u].chatId) :
               e.sandbox = task[u].sandbox /\ e.sandbox \notin stopAsked

-----------------------------------------------------------------------------
(* The records of a call *)

\* the call t returns the result of a command in this step
ReturnsResult(t) ==
    /\ task[t].pc = "running"
    /\ task[t].op = "run"
    /\ task'[t].pc = "done"
    /\ task'[t].ret.kind = "run"

\* C26: a sandbox operation changes the command outputs of its chat in one step
\* only, the step in which a runSandboxCommand attempt returns a result, and
\* there by one record pushed after those kept.  So a call that ends with an
\* error has pushed nothing, the attempts that failed before a retry have
\* pushed nothing, and a call pushes one record at most.
C26_OnlyResultsAreRecorded ==
    [][\A t \in Tasks :
           (Moves(t) /\ Mover(t).op \in SandboxOps)
           => LET c == Mover(t).chatId
                  before == commandOutputsByChatId[c]
                  after == commandOutputsByChatId'[c]
              IN  IF ReturnsResult(t)
                  THEN /\ Len(after) = Len(before) + 1
                       /\ SubSeq(after, 1, Len(before)) = before
                       /\ after[Len(after)].commandId = task'[t].ret.commandId
                       /\ task'[t].err = <<>>
                  ELSE after = before]_vars

\* C26: the first command of the first call was rejected, the retry has
\* returned a result, and there is one record
C26_Witness ==
    \E t \in Tasks :
        /\ calls = 1
        /\ task[t].op = "run"
        /\ task[t].pc = "done"
        /\ task[t].ret.kind = "run"
        /\ task[t].retryCount = 1
        /\ Includes(task[t].trace, "run:dead")
        /\ Len(commandOutputsByChatId[task[t].chatId]) = 1

-----------------------------------------------------------------------------
(* The sandboxes the provider has made *)

\* the sandboxes made so far
Provisioned == 1..(nextHandle - 1)

\* C27: with the calls of a chat issued one at a time and no creation timing
\* out, no sandbox leaks: every sandbox made and not asked to stop is
\* registered, under one chat, and no sandbox is registered that was not made.
C27_NoLeak ==
    /\ \A h \in Provisioned :
           h \notin stopAsked
           => Cardinality({e \in sandboxByChatId : e.sandbox = h}) = 1
    /\ Registered \subseteq Provisioned

\* C27: two sandboxes were made for a chat, the first was found dead and asked
\* to stop, the second is the one registered
C27_Witness ==
    /\ nextHandle = 3
    /\ stopAsked = {1}
    /\ \E c \in ChatIds : {e.sandbox : e \in MapGet(sandboxByChatId, c)} = {2}
    /\ \E t \in Tasks : Includes(task[t].trace, "evict")

-----------------------------------------------------------------------------
(* Calls on the same chat at the same time *)

\* C28: whatever other calls on the chat do meanwhile, the recovery of a call
\* whose command on the sandbox h was rejected with a death-classified error
\* stops h and deletes the entry of h, never another sandbox registered for
\* the chat since, and the call goes on with the repository it was using.
C28_EvictsOnlyTheDead ==
    [][\A t \in Tasks :
           /\ (task[t].pc = "running" /\ task'[t].pc = "deadStop")
              => /\ stopAsked' \ stopAsked \subseteq {task[t].sandbox}
                 /\ \A e \in task'[t].existing : e.sandbox = task[t].sandbox
           /\ (task[t].pc = "deadStop" /\ task'[t].pc = "attempt")
              => /\ sandboxByChatId \ sandboxByChatId' \subseteq task[t].existing
                 /\ task[t].repositoryUrl # None
                    => task'[t].repositoryUrl = task[t].repositoryUrl]_vars

\* C28: a call is stopping, as dead, a sandbox that another call on the chat
\* registered after the first call began
C28_StopsTheNewer ==
    \E t, u \in Tasks :
        /\ t # u
        /\ task[t].chatId = task[u].chatId
        /\ task[t].pc = "deadStop"
        /\ task[t].trace = <<"create", "set", "runCommand", "run:dead", "stop">>
        /\ Includes(task[u].trace, "set")
        /\ \E e \in task[t].existing : e.sandbox = 2

-----------------------------------------------------------------------------
(* A replacement that fails *)

\* the errors a direct call of getOrCreateSandbox ends with when the sandbox
\* is not provisioned
ProvisionFailures == {"throw:credentials", "create:dead", "create:error", "create:timeout"}

\* the call t, a direct call of getOrCreateSandbox that replaces the sandbox
\* of its chat, ends in this step with the new sandbox not provisioned
ReplacementFails(t) ==
    /\ task[t].op = "resolve"
    /\ Finishes(t)
    /\ Includes(task'[t].trace, "replace")
    /\ Last(task'[t].trace) \in ProvisionFailures

\* the error of a call that ends on the missing-repository throw
MissingRepositoryError(tk) ==
    IF tk.op = "resolve" THEN MissingRepositoryMessage(tk.chatId)
    ELSE ToolFailedMessage(tk.op, MissingRepositoryMessage(tk.chatId))

\* C29: when getOrCreateSandbox is called with a repository url other than
\* the registered one and the new sandbox is not provisioned (credentials,
\* timeout or an error of the provider), the call ends with that error, the
\* old sandbox asked to stop and no entry left for the chat; the chat then has
\* no entry until a call on it registers a sandbox, and every call on it that
\* gives no repository url meanwhile throws the missing-repository error and
\* ends with it.
C29_FailedReplacementLeavesNoSession ==
    /\ [][\A t \in Tasks :
              /\ ReplacementFails(t)
                 => /\ task'[t].err # <<>>
                    /\ task[t].existing # {}
                    /\ \A e \in task[t].existing : e.sandbox \in stopAsked'
                    /\ MapGet(sandboxByChatId', task[t].chatId) = {}
              /\ \A c \in ChatIds :
                     (MapGet(sandboxByChatId, c) = {} /\ MapGet(sandboxByChatId', c) # {})
                     => \E u \in Tasks : /\ Registers(u)
                                         /\ task[u].chatId = c
                                         /\ task[u].actualRepositoryUrl # None
              /\ ( /\ \/ Begins(t) /\ task'[t].givenRepositoryUrl = None
                      \/ task[t].pc = "attempt" /\ task[t].repositoryUrl = None
                   /\ Moves(t)
                   /\ task'[t].op \in SandboxOps \cup {"resolve"}
                   /\ MapGet(sandboxByChatId, task'[t].chatId) = {} )
                 => /\ Last(task'[t].trace) = "throw:missing"
                    /\ task'[t].pc = "done" \/ (Begins(t) /\ task'[t].pc = "attempt")]_vars
    /\ [](\A t \in Tasks :
              (task[t].pc = "done" /\ task[t].trace # <<>>
                   /\ Last(task[t].trace) = "throw:missing")
              => task[t].err = MissingRepositoryError(task[t]))

\* C29: a direct call has stopped the sandbox of another repository and its
\* Sandbox.create has timed out
C29_Witness ==
    \E t \in Tasks :
        /\ task[t].op = "resolve"
        /\ task[t].pc = "done"
        /\ task[t].trace = <<"stop", "replace", "create", "create:timeout">>
        /\ task[t].err = CreationTimeoutMessage
        /\ MapGet(sandboxByChatId, task[t].chatId) = {}
        /\ 1 \in stopAsked

-----------------------------------------------------------------------------
(* Termination *)

\* the calls of the tools that run in a sandbox
ToolCalls == {t \in Tasks : task[t].op \in SandboxOps}

\* the passes of the retry loop the call has begun
Attempts(tk) == tk.retryCount + 1

\* C30: a call of runSandboxCommand, listSandboxFiles, readSandboxFile or
\* searchSandboxFiles makes at most two passes of its retry loop and at most
\* two calls of Sandbox.create, never throws the error that follows the
\* loop, and, when whatever it awaits settles, ends: it returns a result or
\* throws.
C30_Terminates ==
    /\ [](\A t \in ToolCalls :
              /\ Attempts(task[t]) <= maxRetries + 1
              /\ Count(task[t].trace, "create") <= maxRetries + 1
              /\ task[t].err # AfterAttemptsMessage(task[t].op))
    /\ \A t \in Tasks :
           (task[t].op \in SandboxOps /\ task[t].pc # "done")
               ~> (task[t].pc = "done" /\ (task[t].err = <<>>) # (task[t].ret = NoRet))

\* C30: a call has ended after two passes of the loop and two calls of
\* Sandbox.create, the second of which failed as the first sandbox had
C30_Witness ==
    \E t \in ToolCalls :
        /\ task[t].pc = "done"
        /\ task[t].retryCount = maxRetries
        /\ Count(task[t].trace, "create") = 2
        /\ Last(task[t].trace) = "create:dead"
        /\ task[t].err # <<>>

=============================================================================
